---- MODULE Spec2Model ----
(***************************************************************************)
(* Workflow execution engine of ziran (src/services/workflowExecution.ts). *)
(*                                                                         *)
(* Text is a sequence of tokens.  A token is a record [k, s]:              *)
(*   k = "lit"  a chunk of plain text s without braces or dollar signs     *)
(*   k = "ph"   the placeholder {{s}}                                      *)
(*   k = "dd"   the two characters $$                                      *)
(*   k = "da"   the two characters $&                                      *)
(* The empty sequence is the empty string (falsy in JavaScript).           *)
(* Variable names are words: no regular-expression metacharacters and no   *)
(* property names of Object.prototype.                                     *)
(*                                                                         *)
(* A run of executeWorkflowEngine is a process with positions              *)
(*   begin -> loop -> try -> (await ->) succeeded | catch -> loop ...      *)
(* ending in done (the run log is returned) or rejected (the promise       *)
(* rejects).  JavaScript is single threaded: a run keeps the thread from   *)
(* its start or from the resolution of its generateContent call up to the  *)
(* next await or its end.                                                  *)
(***************************************************************************)
EXTENDS Integers, Sequences, FiniteSets, TLC

Lit(s) == [k |-> "lit", s |-> s]
Ph(n) == [k |-> "ph", s |-> n]
DD == [k |-> "dd", s |-> "$$"]
DA == [k |-> "da", s |-> "$&"]

(* ---------------------------- bounds ----------------------------------- *)
\* the clock Date.now() reads runs from 0 to MaxClock
MaxClock == 1
\* the graph editor holds at most MaxNodes nodes
MaxNodes == 3
\* a dataset has at most MaxCases test cases
MaxCases == 4

(* ------------------------ program constants ---------------------------- *)
\* let iterationLimit = 100
IterationLimitStart == 100

Statuses == {"running", "success", "error"}
Runs == {1, 2}
NoNode == [id |-> "", type |-> "none", name |-> "", versionId |-> "", userPromptOverride |-> <<>>,
           outputVariableName |-> "", outputTemplate |-> <<>>, includeSystemPrompt |-> TRUE]

(* ------------------------- pure helpers -------------------------------- *)
RECURSIVE FlatMap(_, _)
FlatMap(F(_), seq) ==
    IF seq = <<>> THEN <<>> ELSE F(Head(seq)) \o FlatMap(F, Tail(seq))

\* getVariables: the placeholder names of a text, in order, with repetitions
getVariables(text) ==
    LET phs == SelectSeq(text, LAMBDA t : t.k = "ph")
    IN  [i \in 1..Len(phs) |-> phs[i].s]

\* the replacement string of String.prototype.replace: $$ inserts a "$",
\* $& inserts the matched substring
ExpandReplacement(val, k) ==
    LET one(t) == IF t.k = "dd" THEN <<Lit("$")>>
                  ELSE IF t.k = "da" THEN <<Ph(k)>>
                  ELSE <<t>>
    IN  FlatMap(one, val)

\* text.replace(new RegExp(`{{${k}}}`, 'g'), val)
ReplaceAll(text, k, val) ==
    LET one(t) == IF t = Ph(k) THEN ExpandReplacement(val, k) ELSE <<t>>
    IN  FlatMap(one, text)

\* `_raw_output_${id}`
RawKey(id) ==
    CASE id = "g1" -> "_raw_output_g1"
      [] id = "g2" -> "_raw_output_g2"
      [] id = "g3" -> "_raw_output_g3"
      [] id = "start-node" -> "_raw_output_start-node"
      [] id = "end-node" -> "_raw_output_end-node"
      [] id = "end-2" -> "_raw_output_end-2"
      [] OTHER -> "_raw_output_other"

\* Array.prototype.find / findIndex
RECURSIVE FindIndexFrom(_, _, _)
FindIndexFrom(P(_), seq, i) ==
    IF i > Len(seq) THEN 0
    ELSE IF P(seq[i]) THEN i
    ELSE FindIndexFrom(P, seq, i + 1)

FindIndex(P(_), seq) == FindIndexFrom(P, seq, 1)

\* Splice that removes nothing
SpliceKeeps(seq, i) == seq

\* remainingNodes.splice(i, 1)
Splice(seq, i) == [j \in 1..(Len(seq) - 1) |-> IF j < i THEN seq[j] ELSE seq[j + 1]]

\* a JavaScript object with string keys: sequence of <<key, value>> pairs in
\* insertion order, keys unique
ObjKeys(obj) == {obj[i][1] : i \in 1..Len(obj)}
ObjGet(obj, key) == obj[CHOOSE i \in 1..Len(obj) : obj[i][1] = key][2]
ObjSet(obj, key, val) ==
    IF key \in ObjKeys(obj)
    THEN [i \in 1..Len(obj) |-> IF obj[i][1] = key THEN <<key, val>> ELSE obj[i]]
    ELSE Append(obj, <<key, val>>)

\* JSON.stringify of an object of strings
JsonStringify(obj) ==
    LET one(p) == <<Lit(p[1]), Lit(":")>> \o p[2] \o <<Lit(",")>>
    IN  <<Lit("{")>> \o FlatMap(one, obj) \o <<Lit("}")>>

\* { ...startInputs } as the key -> value mapping of the copy
SpreadCopy(obj) == [key \in ObjKeys(obj) |-> ObjGet(obj, key)]

\* executionContext[key] = val
CtxSet(ctx, key, val) == [x \in (DOMAIN ctx) \cup {key} |-> IF x = key THEN val ELSE ctx[x]]

\* executionContext[key] || ''
CtxGetOrEmpty(ctx, key) == IF key \in DOMAIN ctx THEN ctx[key] ELSE <<>>

(* ----------------------------- inputs ---------------------------------- *)
StartNode == [NoNode EXCEPT !.id = "start-node", !.type = "start", !.name = "Start"]
LlmNode(id, versionId, override, outVar) ==
    [NoNode EXCEPT !.id = id, !.type = "llm", !.name = id, !.versionId = versionId,
                   !.userPromptOverride = override, !.outputVariableName = outVar]
EndNode(id, template) ==
    [NoNode EXCEPT !.id = id, !.type = "end", !.name = "End", !.outputTemplate = template]
Edge(source, target, handle) ==
    [source |-> source, sourceHandle |-> "output", target |-> target, targetHandle |-> handle]
Version(id, content, messages, model) ==
    [id |-> id, content |-> content, messages |-> messages, model |-> model,
     systemInstruction |-> <<Lit("sys")>>]

V1 == Version("v1", <<Lit("Summarize: "), Ph("topic")>>, <<>>, "m1")
V2 == Version("v2", <<Ph("summary"), Lit(" / "), Ph("topic")>>, <<>>, "m2")
AllVersions == <<V1, V2>>
APIs == <<[id |-> "m1"], [id |-> "m2"]>>

\* texts the generation service may return, and messages it may fail with
GenTexts == {<<Lit("Oceans cover 70% of Earth.")>>, <<>>, <<Lit("US"), DD>>, <<Ph("topic")>>}
GenErrors == {<<Lit("rate limited")>>}
GenOutcomes == [ok : {TRUE}, text : GenTexts] \cup [ok : {FALSE}, text : GenErrors]

InputValues == {<<Lit("oceans")>>, <<>>, <<Ph("summary")>>, <<DA>>}
InputObjs ==
    {<<>>} \cup {<< <<"topic", v>> >> : v \in InputValues}
           \cup {<< <<"topic", v>>, <<"summary", w>> >> : v \in InputValues, w \in InputValues}

ExitTokens == {Lit("Result: "), Ph("topic"), Ph("summary")}
ExitTemplates ==
    {<<>>} \cup {<<a>> : a \in ExitTokens} \cup {<<a, b>> : a \in ExitTokens, b \in ExitTokens}

Config(ns, es, ins, vs) ==
    [nodes |-> ns, edges |-> es, startInputs |-> ins, cases |-> {ins}, versions |-> vs]

\* an Entry node and an Exit node, no edges
EntryExitConfigs ==
    {Config(ns, <<>>, ins, AllVersions) :
        ns \in UNION {{<<StartNode, EndNode("end-node", t)>>,
                       <<EndNode("end-node", t), StartNode>>,
                       <<EndNode("end-node", t)>>} : t \in ExitTemplates},
        ins \in InputObjs}

\* Entry, one Generate node g1, Exit
G1Nodes ==
    {LlmNode("g1", ver, ovr, outVar) :
        ver \in {"v1", "v9"}, ovr \in {<<>>, <<Ph("topic"), Lit("?")>>},
        outVar \in {"summary", ""}}
ChainExitTemplates == {<<Lit("Result: "), Ph("summary")>>, <<Ph("summary"), Ph("topic")>>}
ChainEdges ==
    {<<>>,
     <<Edge("start-node", "g1", "topic"), Edge("g1", "end-node", "summary")>>,
     <<Edge("g1", "end-node", "summary")>>}
ChainInputs ==
    {<<>>, << <<"topic", <<Lit("oceans")>> >> >>,
     << <<"topic", <<Lit("oceans")>> >>, <<"summary", <<Lit("old")>> >> >>,
     << <<"topic", <<Ph("summary")>> >> >>}
Chain3Configs ==
    {Config(ns, es, ins, AllVersions) :
        ns \in UNION {{<<StartNode, g, EndNode("end-node", t)>>,
                       <<StartNode, EndNode("end-node", t), g>>,
                       <<EndNode("end-node", t), g, StartNode>>,
                       <<g, EndNode("end-node", t)>>} : g \in G1Nodes, t \in ChainExitTemplates},
        es \in ChainEdges, ins \in ChainInputs}

\* Entry, Generate g1 (A), Generate g2 (B, consuming A's output variable), Exit
NodeA == LlmNode("g1", "v1", <<>>, "summary")
NodeB == LlmNode("g2", "v2", <<>>, "out2")
Chain4Edges ==
    {<<>>,
     <<Edge("start-node", "g1", "topic"), Edge("g1", "g2", "summary"),
       Edge("g2", "end-node", "out2")>>,
     <<Edge("g1", "g2", "topic"), Edge("g1", "g2", "summary"), Edge("g2", "end-node", "out2")>>}
Chain4Configs ==
    {Config(ns, es, ins, AllVersions) :
        ns \in UNION {{<<StartNode, NodeA, NodeB, EndNode("end-node", t)>>,
                       <<StartNode, NodeB, NodeA, EndNode("end-node", t)>>,
                       <<EndNode("end-node", t), NodeB, NodeA, StartNode>>}
                      : t \in {<<Ph("out2")>>, <<Lit("Result: "), Ph("summary")>>}},
        es \in Chain4Edges,
        ins \in {<< <<"topic", <<Lit("oceans")>> >> >>,
                 << <<"topic", <<Lit("oceans")>> >>, <<"summary", <<Lit("old")>> >> >>}}

\* Entry, g1 without a declared output variable, g2 consuming g1's raw output
\* through an edge on "summary"; in some edge lists a second edge binds the
\* same (target, handle) pair
NodeARaw == LlmNode("g1", "v1", <<>>, "")
RawEdges ==
    {<<Edge("start-node", "g1", "topic"), Edge("g1", "g2", "summary"),
       Edge("g2", "end-node", "out2")>>,
     <<Edge("start-node", "g1", "topic"), Edge("end-node", "g2", "summary"),
       Edge("g1", "g2", "summary"), Edge("g2", "end-node", "out2")>>,
     <<Edge("start-node", "g1", "topic"), Edge("g1", "g2", "summary"),
       Edge("end-node", "g2", "summary"), Edge("g2", "end-node", "out2")>>,
     <<Edge("start-node", "g2", "summary"), Edge("g1", "g2", "summary"),
       Edge("g2", "end-node", "out2")>>}
RawConfigs ==
    {Config(ns, es, << <<"topic", <<Lit("oceans")>> >> >>, AllVersions) :
        ns \in {<<StartNode, NodeARaw, NodeB, EndNode("end-node", <<Ph("out2")>>)>>,
                <<StartNode, NodeB, NodeARaw, EndNode("end-node", <<Ph("out2")>>)>>},
        es \in RawEdges}

\* user-chosen names that spell a raw-output key: an initial input and an
\* Exit placeholder named "_raw_output_g1"
RawNameConfigs ==
    {Config(<<StartNode, NodeARaw, EndNode("end-node", <<Ph(RawKey("g1"))>>)>>,
            <<Edge("start-node", "g1", "topic")>>, ins, AllVersions) :
        ins \in {<< <<"topic", <<Lit("oceans")>> >> >>,
                 << <<"topic", <<Lit("oceans")>> >>, <<RawKey("g1"), <<Lit("old")>> >> >>}}

\* an Exit node whose placeholder is bound by two edges, g1 publishing its
\* raw output only
RawExitConfigs ==
    {Config(<<StartNode, NodeARaw, EndNode("end-node", <<Ph("summary")>>)>>, es,
            << <<"topic", <<Lit("oceans")>> >> >>, AllVersions) :
        es \in {<<Edge("start-node", "end-node", "summary"), Edge("g1", "end-node", "summary")>>,
                <<Edge("g1", "end-node", "summary"), Edge("start-node", "end-node", "summary")>>}}

\* g1 and g3 declare the same output variable; g2 takes "prev" through an
\* edge from g1
NodeSameName == LlmNode("g3", "v1", <<>>, "summary")
NodePrev == LlmNode("g2", "v1", <<Ph("prev")>>, "")
SameNameConfigs ==
    {Config(ns, <<Edge("start-node", "g1", "topic"), Edge("g1", "g2", "prev")>>,
            << <<"topic", <<Lit("oceans")>> >> >>, AllVersions) :
        ns \in {<<StartNode, NodeA, NodeSameName, NodePrev>>,
                <<StartNode, NodeA, NodePrev, NodeSameName>>}}

\* a prompt definition whose model is in no model configuration
V3 == Version("v3", <<Lit("Summarize: "), Ph("topic")>>, <<>>, "m9")
UnknownModelConfigs ==
    {Config(ns, <<Edge("start-node", "g1", "topic"), Edge("g1", "end-node", "summary")>>,
            << <<"topic", <<Lit("oceans")>> >> >>, <<V1, V2, V3>>) :
        ns \in {<<StartNode, LlmNode("g1", "v3", <<>>, "summary"),
                  EndNode("end-node", <<Ph("summary")>>)>>,
                <<StartNode, LlmNode("g1", "v3", <<>>, "summary"), NodeB,
                  EndNode("end-node", <<Ph("out2")>>)>>}}

Configs ==
    EntryExitConfigs \cup Chain3Configs \cup Chain4Configs \cup RawConfigs
        \cup RawNameConfigs \cup RawExitConfigs \cup SameNameConfigs
        \cup UnknownModelConfigs
Callbacks == {"absent", "returns", "may throw"}

(* ------------------------------ state ---------------------------------- *)
VARIABLES
    nodes, edges, startInputs, versions, availableAPIs,  \* the caller's arguments
    caseInputs,          \* per run: the object that call receives as startInputs
    onNodeStatusUpdate,  \* "absent", "returns" or "may throw"
    detStub,             \* TRUE: the generation service is a deterministic stub
    stub,                \* the results the deterministic stub has given so far
    now,                 \* the clock read by Date.now()
    thread,              \* the run holding the JavaScript thread, 0 if none
    pc,                  \* per run: position in executeWorkflowEngine
    runLog, executionContext, processedNodes, remainingNodes, iterationLimit,
    node,                \* per run: the node selected by the current iteration
    startTime, output, err,
    calls,               \* per run: the generateContent calls made
    results,             \* per run: the outcomes of those calls
    cbLog,               \* per run: the invocations of onNodeStatusUpdate
    linkingSource,       \* graph editor: id of the node a link is drawn from, "" if none
    mounted,             \* graph editor: the component is mounted (no render has thrown)
    dataset,             \* batch: the test cases, each with what its workflow run will do
    graphJson,           \* batch: "valid" or "invalid", whether version.content parses
    queue, finalResults, completed,
    worker,              \* batch: per worker its position, test case and start time
    batchRun,            \* batch: the run as held in the history
    startedCases         \* batch: the ids of the test cases taken from the queue, in order

vars == <<nodes, edges, startInputs, caseInputs, versions, availableAPIs,
          onNodeStatusUpdate, detStub, stub, now, thread, pc, runLog, executionContext, processedNodes, remainingNodes,
          iterationLimit, node, startTime, output, err, calls, results, cbLog,
          linkingSource, mounted, dataset, graphJson, queue, finalResults, completed, worker,
          batchRun, startedCases>>

editorState == <<linkingSource, mounted>>
poolState == <<dataset, graphJson, queue, finalResults, completed, worker, batchRun, startedCases>>

args == <<nodes, edges, startInputs, caseInputs, versions, availableAPIs, onNodeStatusUpdate,
          detStub, editorState, poolState>>

\* BatchTestView before executeBatch is called
CONCURRENCY == 3
Workers == 1..CONCURRENCY
NoCase == [id |-> "", run |-> ""]
NoBatch ==
    /\ dataset = <<>>
    /\ graphJson = "valid"
    /\ queue = <<>>
    /\ finalResults = <<>>
    /\ completed = 0
    /\ worker = [w \in Workers |-> [pc |-> "idle", testCase |-> NoCase, start |-> 0]]
    /\ batchRun = [status |-> "none", progress |-> 0, totalCases |-> 0, results |-> <<>>]
    /\ startedCases = <<>>

(* ------------------------ the engine's pieces -------------------------- *)
\* versions.find(ver => ver.id === id), as an index (0: undefined)
VersionIndex(id) == FindIndex(LAMBDA ver : ver.id = id, versions)

\* edges.find(e => e.target === id && e.targetHandle === v), as an index
EdgeIndex(id, v) == FindIndex(LAMBDA e : e.target = id /\ e.targetHandle = v, edges)

\* nodes.find(n => n.id === id), as an index
NodeIndex(id) == FindIndex(LAMBDA n : n.id = id, nodes)

\* the variables of a prompt definition: its content, then its messages
VersionVars(v) == getVariables(v.content) \o FlatMap(getVariables, v.messages)

\* requiredVars of the readiness scan
RequiredVars(n) ==
    IF n.type = "llm"
    THEN IF n.userPromptOverride # <<>>
         THEN getVariables(n.userPromptOverride)
         ELSE LET vi == VersionIndex(n.versionId)
              IN  IF vi # 0 THEN VersionVars(versions[vi]) ELSE <<>>
    ELSE IF n.type = "end" THEN getVariables(n.outputTemplate)
    ELSE <<>>

\* IsReady without the check that the edge's source has been processed
IsReadyAnyEdge(n, ctx, processed) ==
    LET requiredVars == RequiredVars(n)
    IN  \/ Len(requiredVars) = 0
        \/ \A i \in 1..Len(requiredVars) :
              \/ requiredVars[i] \in DOMAIN ctx
              \/ EdgeIndex(n.id, requiredVars[i]) # 0

\* IsReady with edges.some in place of edges.find: any binding edge counts
IsReadySomeEdge(n, ctx, processed) ==
    LET requiredVars == RequiredVars(n)
    IN  \/ Len(requiredVars) = 0
        \/ \A i \in 1..Len(requiredVars) :
              \/ requiredVars[i] \in DOMAIN ctx
              \/ \E j \in 1..Len(edges) :
                    /\ edges[j].target = n.id /\ edges[j].targetHandle = requiredVars[i]
                    /\ edges[j].source \in processed

\* the predicate of remainingNodes.findIndex
IsReady(n, ctx, processed) ==
    LET requiredVars == RequiredVars(n)
    IN  \/ Len(requiredVars) = 0
        \/ \A i \in 1..Len(requiredVars) :
              LET v == requiredVars[i]
                  ei == EdgeIndex(n.id, v)
              IN  \/ v \in DOMAIN ctx
                  \/ ei # 0 /\ edges[ei].source \in processed

\* vars of the llm executor
LlmVars(n) ==
    IF n.userPromptOverride # <<>>
    THEN getVariables(n.userPromptOverride)
    ELSE LET vi == VersionIndex(n.versionId)
         IN  IF vi # 0 THEN VersionVars(versions[vi]) ELSE <<>>

\* FetchValue that takes the value from the last edge binding the variable
FetchValueLastEdge(nodeInputs, n, v, ctx) ==
    IF v \in DOMAIN ctx THEN ObjSet(nodeInputs, v, ctx[v])
    ELSE LET binding == {i \in 1..Len(edges) :
                            edges[i].target = n.id /\ edges[i].targetHandle = v}
             ei == IF binding = {} THEN 0
                   ELSE CHOOSE i \in binding : \A j \in binding : j <= i
             si == IF ei = 0 THEN 0 ELSE NodeIndex(edges[ei].source)
             sourceNode == nodes[si]
             outVar == sourceNode.outputVariableName
         IN  IF si = 0 THEN nodeInputs
             ELSE IF sourceNode.type = "start"
                  THEN ObjSet(nodeInputs, v, CtxGetOrEmpty(ctx, v))
             ELSE IF sourceNode.type = "llm"
                  THEN IF outVar # "" /\ CtxGetOrEmpty(ctx, outVar) # <<>>
                       THEN ObjSet(nodeInputs, v, ctx[outVar])
                       ELSE ObjSet(nodeInputs, v, CtxGetOrEmpty(ctx, RawKey(sourceNode.id)))
             ELSE nodeInputs

\* FetchValue that looks along the edge first and in the context only when
\* no edge binds the variable
FetchValueEdgeFirst(nodeInputs, n, v, ctx) ==
    LET ei == EdgeIndex(n.id, v)
        si == IF ei = 0 THEN 0 ELSE NodeIndex(edges[ei].source)
        sourceNode == nodes[si]
        outVar == sourceNode.outputVariableName
    IN  IF si = 0
        THEN IF v \in DOMAIN ctx THEN ObjSet(nodeInputs, v, ctx[v]) ELSE nodeInputs
        ELSE IF sourceNode.type = "start"
             THEN ObjSet(nodeInputs, v, CtxGetOrEmpty(ctx, v))
        ELSE IF sourceNode.type = "llm"
             THEN IF outVar # "" /\ CtxGetOrEmpty(ctx, outVar) # <<>>
                  THEN ObjSet(nodeInputs, v, ctx[outVar])
                  ELSE ObjSet(nodeInputs, v, CtxGetOrEmpty(ctx, RawKey(sourceNode.id)))
        ELSE nodeInputs

\* one round of vars.forEach in the llm executor
FetchValue(nodeInputs, n, v, ctx) ==
    IF v \in DOMAIN ctx THEN ObjSet(nodeInputs, v, ctx[v])
    ELSE LET ei == EdgeIndex(n.id, v)
             si == IF ei = 0 THEN 0 ELSE NodeIndex(edges[ei].source)
             sourceNode == nodes[si]
             outVar == sourceNode.outputVariableName
         IN  IF si = 0 THEN nodeInputs
             ELSE IF sourceNode.type = "start"
                  THEN ObjSet(nodeInputs, v, CtxGetOrEmpty(ctx, v))
             ELSE IF sourceNode.type = "llm"
                  THEN IF outVar # "" /\ CtxGetOrEmpty(ctx, outVar) # <<>>
                       THEN ObjSet(nodeInputs, v, ctx[outVar])
                       ELSE ObjSet(nodeInputs, v, CtxGetOrEmpty(ctx, RawKey(sourceNode.id)))
             ELSE nodeInputs

RECURSIVE FetchValues(_, _, _, _)
FetchValues(nodeInputs, n, vs, ctx) ==
    IF vs = <<>> THEN nodeInputs
    ELSE FetchValues(FetchValue(nodeInputs, n, Head(vs), ctx), n, Tail(vs), ctx)

NodeInputs(n, ctx) == FetchValues(<<>>, n, LlmVars(n), ctx)

\* Object.entries(nodeInputs).forEach(... promptContent.replace ...)
RECURSIVE SubstituteEntries(_, _)
SubstituteEntries(text, entries) ==
    IF entries = <<>> THEN text
    ELSE SubstituteEntries(ReplaceAll(text, Head(entries)[1], Head(entries)[2]), Tail(entries))

PromptContent(n, version, ctx) ==
    SubstituteEntries(IF n.userPromptOverride # <<>> THEN n.userPromptOverride
                      ELSE version.content,
                      NodeInputs(n, ctx))

\* ModelConfig that falls back to the last model configuration
ModelConfigLast(version) ==
    LET ai == FindIndex(LAMBDA a : a.id = version.model, availableAPIs)
    IN  IF ai # 0 THEN availableAPIs[ai].id
        ELSE IF Len(availableAPIs) > 0 THEN availableAPIs[Len(availableAPIs)].id
        ELSE "undefined"

\* availableAPIs.find(a => a.id === version.model) || availableAPIs[0]
ModelConfig(version) ==
    LET ai == FindIndex(LAMBDA a : a.id = version.model, availableAPIs)
    IN  IF ai # 0 THEN availableAPIs[ai].id
        ELSE IF Len(availableAPIs) > 0 THEN availableAPIs[1].id
        ELSE "undefined"

\* the arguments of generateContent
CallArgs(n, ctx) ==
    LET version == versions[VersionIndex(n.versionId)]
    IN  [modelConfig |-> ModelConfig(version),
         promptContent |-> PromptContent(n, version, ctx),
         systemInstr |-> IF n.includeSystemPrompt THEN version.systemInstruction ELSE <<>>]

\* one round of vars.forEach in the end executor
FillTemplate(template, n, v, ctx) ==
    IF v \in DOMAIN ctx THEN ReplaceAll(template, v, ctx[v])
    ELSE LET ei == EdgeIndex(n.id, v)
             si == IF ei = 0 THEN 0 ELSE NodeIndex(edges[ei].source)
         IN  IF si = 0 THEN template
             ELSE ReplaceAll(template, v, CtxGetOrEmpty(ctx, RawKey(nodes[si].id)))

RECURSIVE FillTemplateAll(_, _, _, _)
FillTemplateAll(template, n, vs, ctx) ==
    IF vs = <<>> THEN template
    ELSE FillTemplateAll(FillTemplate(template, n, Head(vs), ctx), n, Tail(vs), ctx)

EndOutput(n, ctx) == FillTemplateAll(n.outputTemplate, n, getVariables(n.outputTemplate), ctx)

\* UpdateContext that publishes the declared name only
UpdateContextNamedOnly(ctx, n, text) ==
    IF n.outputVariableName # "" THEN CtxSet(ctx, n.outputVariableName, text) ELSE ctx

\* the context after a generation call returned text
UpdateContext(ctx, n, text) ==
    LET named == IF n.outputVariableName # "" THEN CtxSet(ctx, n.outputVariableName, text)
                 ELSE ctx
    IN  CtxSet(named, RawKey(n.id), text)

Step(n, status, out, latency) ==
    [nodeId |-> n.id, nodeName |-> n.name, status |-> status, output |-> out,
     latency |-> latency]

NewRunLog(r) == [id |-> now, timestamp |-> now, status |-> "success",
                 inputs |-> caseInputs[r], outputs |-> <<>>, steps |-> <<>>]

\* the value caught by the catch block
NoError == [thrown |-> FALSE, message |-> <<>>]
Error(message) == [thrown |-> TRUE, message |-> message]
RefVersionNotFound == Error(<<Lit("Ref version not found")>>)
CallbackError == Error(<<Lit("callback failed")>>)

(* ----------------------------- actions --------------------------------- *)
Idle(r) == pc[r] = "idle"

\* onNodeStatusUpdate(id, status) when a callback was passed; the record of it
Notified(r, id, status) ==
    IF onNodeStatusUpdate = "absent" THEN cbLog
    ELSE [cbLog EXCEPT ![r] = Append(@, <<id, status>>)]

CallbackReturns == onNodeStatusUpdate \in {"absent", "returns", "may throw"}
CallbackThrows == onNodeStatusUpdate = "may throw"

\* time passes
Tick ==
    /\ now < MaxClock
    /\ now' = now + 1
    /\ UNCHANGED <<args, stub, thread, pc, runLog, executionContext, processedNodes,
                   remainingNodes, iterationLimit, node, startTime, output, err, calls, results, cbLog>>

\* ProcessStartNode without the filter: the Entry node stays pending
ProcessStartNodeKeepsEntry(r) ==
    /\ pc[r] = "begin" /\ thread = 0
    /\ LET si == FindIndex(LAMBDA n : n.type = "start", nodes)
           startNode == nodes[si]
           out == JsonStringify(caseInputs[r])
       IN  /\ executionContext' = [executionContext EXCEPT ![r] = SpreadCopy(caseInputs[r])]
           /\ cbLog' = IF si # 0 THEN Notified(r, startNode.id, "success") ELSE cbLog
           /\ \/ /\ si = 0 \/ CallbackReturns
                 /\ runLog' = [runLog EXCEPT ![r] =
                        [NewRunLog(r) EXCEPT !.steps =
                            IF si # 0 THEN <<Step(startNode, "success", out, 0)>> ELSE <<>>]]
                 /\ processedNodes' = [processedNodes EXCEPT ![r] =
                        IF si # 0 THEN {startNode.id} ELSE {}]
                 /\ remainingNodes' = [remainingNodes EXCEPT ![r] =
                        nodes]
                 /\ iterationLimit' = [iterationLimit EXCEPT ![r] = IterationLimitStart]
                 /\ pc' = [pc EXCEPT ![r] = "loop"]
                 /\ thread' = r
              \/ /\ si # 0 /\ CallbackThrows
                 /\ runLog' = [runLog EXCEPT ![r] = NewRunLog(r)]
                 /\ pc' = [pc EXCEPT ![r] = "rejected"]
                 /\ UNCHANGED <<processedNodes, remainingNodes, iterationLimit, thread>>
    /\ UNCHANGED <<args, stub, now, node, startTime, output, err, calls, results>>

\* the call of executeWorkflowEngine up to the execution loop: the run log, the
\* execution context, the start node
ProcessStartNode(r) ==
    /\ pc[r] = "begin" /\ thread = 0
    /\ LET si == FindIndex(LAMBDA n : n.type = "start", nodes)
           startNode == nodes[si]
           out == JsonStringify(caseInputs[r])
       IN  /\ executionContext' = [executionContext EXCEPT ![r] = SpreadCopy(caseInputs[r])]
           /\ cbLog' = IF si # 0 THEN Notified(r, startNode.id, "success") ELSE cbLog
           /\ \/ /\ si = 0 \/ CallbackReturns
                 /\ runLog' = [runLog EXCEPT ![r] =
                        [NewRunLog(r) EXCEPT !.steps =
                            IF si # 0 THEN <<Step(startNode, "success", out, 0)>> ELSE <<>>]]
                 /\ processedNodes' = [processedNodes EXCEPT ![r] =
                        IF si # 0 THEN {startNode.id} ELSE {}]
                 /\ remainingNodes' = [remainingNodes EXCEPT ![r] =
                        SelectSeq(nodes, LAMBDA n : n.type # "start")]
                 /\ iterationLimit' = [iterationLimit EXCEPT ![r] = IterationLimitStart]
                 /\ pc' = [pc EXCEPT ![r] = "loop"]
                 /\ thread' = r
              \/ /\ si # 0 /\ CallbackThrows
                 /\ runLog' = [runLog EXCEPT ![r] = NewRunLog(r)]
                 /\ pc' = [pc EXCEPT ![r] = "rejected"]
                 /\ UNCHANGED <<processedNodes, remainingNodes, iterationLimit, thread>>
    /\ UNCHANGED <<args, stub, now, node, startTime, output, err, calls, results>>

\* ReadyNodeIndex with findLastIndex in place of findIndex
ReadyNodeIndexLast(r) ==
    LET ready == {i \in 1..Len(remainingNodes[r]) :
                     IsReady(remainingNodes[r][i], executionContext[r], processedNodes[r])}
    IN  IF ready = {} THEN 0 ELSE CHOOSE i \in ready : \A j \in ready : j <= i

\* ReadyNodeIndex over a context and a processed set kept at module scope,
\* where the last call to start has overwritten them
ReadyNodeIndexShared(r) ==
    LET last == CHOOSE q \in Runs : pc[q] # "idle" /\ \A o \in Runs : pc[o] # "idle" => o <= q
    IN  FindIndex(LAMBDA n : IsReady(n, executionContext[last], processedNodes[last]),
                  remainingNodes[r])

\* ReadyNodeIndex that looks at the first pending node only
ReadyNodeIndexFirstOnly(r) ==
    IF /\ remainingNodes[r] # <<>>
       /\ IsReady(remainingNodes[r][1], executionContext[r], processedNodes[r])
    THEN 1 ELSE 0

ReadyNodeIndex(r) ==
    FindIndex(LAMBDA n : IsReady(n, executionContext[r], processedNodes[r]), remainingNodes[r])

LoopCondition(r) == Len(remainingNodes[r]) > 0 /\ iterationLimit[r] > 0

\* LoopExit that reports a used-up iteration limit as an error
LoopExitCeilingIsError(r) ==
    /\ pc[r] = "loop" /\ thread = r
    /\ ~LoopCondition(r)
    /\ runLog' = [runLog EXCEPT ![r].status =
           IF remainingNodes[r] # <<>> THEN "error" ELSE @]
    /\ pc' = [pc EXCEPT ![r] = "done"]
    /\ thread' = 0
    /\ UNCHANGED <<args, stub, now, executionContext, processedNodes, remainingNodes,
                   iterationLimit, node, startTime, output, err, calls, results, cbLog>>

\* the while condition is false: return runLog
LoopExit(r) ==
    /\ pc[r] = "loop" /\ thread = r
    /\ ~LoopCondition(r)
    /\ pc' = [pc EXCEPT ![r] = "done"]
    /\ thread' = 0
    /\ UNCHANGED <<args, stub, now, runLog, executionContext, processedNodes, remainingNodes,
                   iterationLimit, node, startTime, output, err, calls, results, cbLog>>

\* NoReadyNode reporting the unreachable nodes as an error
NoReadyNodeIsError(r) ==
    /\ pc[r] = "loop" /\ thread = r
    /\ LoopCondition(r)
    /\ ReadyNodeIndex(r) = 0
    /\ iterationLimit' = [iterationLimit EXCEPT ![r] = @ - 1]
    /\ runLog' = [runLog EXCEPT ![r].status = "error"]
    /\ pc' = [pc EXCEPT ![r] = "done"]
    /\ thread' = 0
    /\ UNCHANGED <<args, stub, now, executionContext, processedNodes, remainingNodes,
                   node, startTime, output, err, calls, results, cbLog>>

\* no ready node found: break, return runLog
NoReadyNode(r) ==
    /\ pc[r] = "loop" /\ thread = r
    /\ LoopCondition(r)
    /\ ReadyNodeIndex(r) = 0
    /\ iterationLimit' = [iterationLimit EXCEPT ![r] = @ - 1]
    /\ pc' = [pc EXCEPT ![r] = "done"]
    /\ thread' = 0
    /\ UNCHANGED <<args, stub, now, runLog, executionContext, processedNodes, remainingNodes,
                   node, startTime, output, err, calls, results, cbLog>>

\* SelectNode that splices the caller's node list as well
SelectNodeSplicesInput(r) ==
    /\ pc[r] = "loop" /\ thread = r
    /\ LoopCondition(r)
    /\ ReadyNodeIndex(r) # 0
    /\ LET i == ReadyNodeIndex(r)
           n == remainingNodes[r][i]
       IN  /\ iterationLimit' = [iterationLimit EXCEPT ![r] = @ - 1]
           /\ node' = [node EXCEPT ![r] = n]
           /\ remainingNodes' = [remainingNodes EXCEPT ![r] = Splice(@, i)]
           /\ nodes' = Splice(nodes, NodeIndex(n.id))
           /\ cbLog' = Notified(r, n.id, "running")
           /\ \/ /\ CallbackReturns
                 /\ startTime' = [startTime EXCEPT ![r] = now]
                 /\ output' = [output EXCEPT ![r] = <<>>]
                 /\ pc' = [pc EXCEPT ![r] = "try"]
                 /\ UNCHANGED thread
              \/ /\ CallbackThrows
                 /\ pc' = [pc EXCEPT ![r] = "rejected"]
                 /\ thread' = 0
                 /\ UNCHANGED <<startTime, output>>
    /\ UNCHANGED <<edges, startInputs, caseInputs, versions, availableAPIs,
                   onNodeStatusUpdate, detStub, stub, now, runLog, executionContext, processedNodes, err, calls, results,
                   editorState, poolState>>

\* a ready node is found, removed from remainingNodes and announced as running
SelectNode(r) ==
    /\ pc[r] = "loop" /\ thread = r
    /\ LoopCondition(r)
    /\ ReadyNodeIndex(r) # 0
    /\ LET i == ReadyNodeIndex(r)
           n == remainingNodes[r][i]
       IN  /\ iterationLimit' = [iterationLimit EXCEPT ![r] = @ - 1]
           /\ node' = [node EXCEPT ![r] = n]
           /\ remainingNodes' = [remainingNodes EXCEPT ![r] = Splice(@, i)]
           /\ cbLog' = Notified(r, n.id, "running")
           /\ \/ /\ CallbackReturns
                 /\ startTime' = [startTime EXCEPT ![r] = now]
                 /\ output' = [output EXCEPT ![r] = <<>>]
                 /\ pc' = [pc EXCEPT ![r] = "try"]
                 /\ UNCHANGED thread
              \/ /\ CallbackThrows
                 /\ pc' = [pc EXCEPT ![r] = "rejected"]
                 /\ thread' = 0
                 /\ UNCHANGED <<startTime, output>>
    /\ UNCHANGED <<args, stub, now, runLog, executionContext, processedNodes, err, calls, results>>

\* LlmVersionMissing that skips the node instead of throwing
LlmVersionMissingSkips(r) ==
    /\ pc[r] = "try" /\ thread = r
    /\ node[r].type = "llm"
    /\ VersionIndex(node[r].versionId) = 0
    /\ pc' = [pc EXCEPT ![r] = "succeeded"]
    /\ UNCHANGED <<args, stub, now, thread, runLog, executionContext, processedNodes,
                   remainingNodes, iterationLimit, node, startTime, output, err, calls,
                   results, cbLog>>

\* llm node whose version is not found: throw new Error("Ref version not found")
LlmVersionMissing(r) ==
    /\ pc[r] = "try" /\ thread = r
    /\ node[r].type = "llm"
    /\ VersionIndex(node[r].versionId) = 0
    /\ err' = [err EXCEPT ![r] = RefVersionNotFound]
    /\ pc' = [pc EXCEPT ![r] = "catch"]
    /\ UNCHANGED <<args, stub, now, thread, runLog, executionContext, processedNodes,
                   remainingNodes, iterationLimit, node, startTime, output, calls, results, cbLog>>

\* LlmCall without the await: the run goes on while the call is outstanding
LlmCallNoAwait(r) ==
    /\ pc[r] = "try" /\ thread = r
    /\ node[r].type = "llm"
    /\ VersionIndex(node[r].versionId) # 0
    /\ calls' = [calls EXCEPT ![r] =
           Append(@, [nodeId |-> node[r].id, args |-> CallArgs(node[r], executionContext[r])])]
    /\ pc' = [pc EXCEPT ![r] = "succeeded"]
    /\ UNCHANGED <<args, stub, now, thread, runLog, executionContext, processedNodes,
                   remainingNodes, iterationLimit, node, startTime, output, err, results, cbLog>>

\* llm node: the prompt is built and generateContent is called; the run is
\* suspended at the await
LlmCall(r) ==
    /\ pc[r] = "try" /\ thread = r
    /\ node[r].type = "llm"
    /\ VersionIndex(node[r].versionId) # 0
    /\ calls' = [calls EXCEPT ![r] =
           Append(@, [nodeId |-> node[r].id, args |-> CallArgs(node[r], executionContext[r])])]
    /\ pc' = [pc EXCEPT ![r] = "await"]
    /\ thread' = 0
    /\ UNCHANGED <<args, stub, now, runLog, executionContext, processedNodes, remainingNodes,
                   iterationLimit, node, startTime, output, err, results, cbLog>>

LastArgs(r) == calls[r][Len(calls[r])].args

\* the outcomes generateContent may have for the last call of run r
Outcomes(r) ==
    LET a == LastArgs(r)
        known == {p \in stub : p[1] = a}
    IN  IF detStub /\ known # {} THEN {p[2] : p \in known} ELSE GenOutcomes

\* LlmResolve over one context object shared by all runs
LlmResolveSharedContext(r) ==
    /\ pc[r] = "await" /\ thread = 0
    /\ \E o \in Outcomes(r) :
          /\ o.ok
          /\ stub' = IF detStub THEN stub \cup {<<LastArgs(r), o>>} ELSE stub
          /\ output' = [output EXCEPT ![r] = o.text]
          /\ results' = [results EXCEPT ![r] = Append(@, o)]
          /\ executionContext' = [q \in Runs |->
                 IF pc[q] \in {"idle", "begin"} THEN executionContext[q]
                 ELSE UpdateContext(executionContext[q], node[r], o.text)]
    /\ pc' = [pc EXCEPT ![r] = "succeeded"]
    /\ thread' = r
    /\ UNCHANGED <<args, now, runLog, processedNodes, remainingNodes, iterationLimit, node,
                   startTime, err, calls, cbLog>>

\* generateContent resolves: output = res.text, the context is updated
LlmResolve(r) ==
    /\ pc[r] = "await" /\ thread = 0
    /\ \E o \in Outcomes(r) :
          /\ o.ok
          /\ stub' = IF detStub THEN stub \cup {<<LastArgs(r), o>>} ELSE stub
          /\ output' = [output EXCEPT ![r] = o.text]
          /\ results' = [results EXCEPT ![r] = Append(@, o)]
          /\ executionContext' = [executionContext EXCEPT ![r] = UpdateContext(@, node[r], o.text)]
    /\ pc' = [pc EXCEPT ![r] = "succeeded"]
    /\ thread' = r
    /\ UNCHANGED <<args, now, runLog, processedNodes, remainingNodes, iterationLimit, node,
                   startTime, err, calls, cbLog>>

\* LlmReject that publishes the failure's message as the node's output
LlmRejectPublishesError(r) ==
    /\ pc[r] = "await" /\ thread = 0
    /\ \E o \in Outcomes(r) :
          /\ ~o.ok
          /\ stub' = IF detStub THEN stub \cup {<<LastArgs(r), o>>} ELSE stub
          /\ err' = [err EXCEPT ![r] = Error(o.text)]
          /\ results' = [results EXCEPT ![r] = Append(@, o)]
          /\ executionContext' = [executionContext EXCEPT ![r] = UpdateContext(@, node[r], o.text)]
    /\ pc' = [pc EXCEPT ![r] = "catch"]
    /\ thread' = r
    /\ UNCHANGED <<args, now, runLog, processedNodes, remainingNodes,
                   iterationLimit, node, startTime, output, calls, cbLog>>

\* LlmReject that keeps a generic message instead of the failure's own
LlmRejectGenericMessage(r) ==
    /\ pc[r] = "await" /\ thread = 0
    /\ \E o \in Outcomes(r) :
          /\ ~o.ok
          /\ stub' = IF detStub THEN stub \cup {<<LastArgs(r), o>>} ELSE stub
          /\ err' = [err EXCEPT ![r] = Error(<<Lit("Generation failed")>>)]
          /\ results' = [results EXCEPT ![r] = Append(@, o)]
    /\ pc' = [pc EXCEPT ![r] = "catch"]
    /\ thread' = r
    /\ UNCHANGED <<args, now, runLog, executionContext, processedNodes, remainingNodes,
                   iterationLimit, node, startTime, output, calls, cbLog>>

\* generateContent rejects
LlmReject(r) ==
    /\ pc[r] = "await" /\ thread = 0
    /\ \E o \in Outcomes(r) :
          /\ ~o.ok
          /\ stub' = IF detStub THEN stub \cup {<<LastArgs(r), o>>} ELSE stub
          /\ err' = [err EXCEPT ![r] = Error(o.text)]
          /\ results' = [results EXCEPT ![r] = Append(@, o)]
    /\ pc' = [pc EXCEPT ![r] = "catch"]
    /\ thread' = r
    /\ UNCHANGED <<args, now, runLog, executionContext, processedNodes, remainingNodes,
                   iterationLimit, node, startTime, output, calls, cbLog>>

\* end node: the template is rendered and published as outputs.final
ExecuteEnd(r) ==
    /\ pc[r] = "try" /\ thread = r
    /\ node[r].type = "end"
    /\ LET out == EndOutput(node[r], executionContext[r])
       IN  /\ output' = [output EXCEPT ![r] = out]
           /\ runLog' = [runLog EXCEPT ![r].outputs = ObjSet(@, "final", out)]
    /\ pc' = [pc EXCEPT ![r] = "succeeded"]
    /\ UNCHANGED <<args, stub, now, thread, executionContext, processedNodes, remainingNodes,
                   iterationLimit, node, startTime, err, calls, results, cbLog>>

\* the end of the try block: success callback, processedNodes, success step
NodeSuccess(r) ==
    /\ pc[r] = "succeeded" /\ thread = r
    /\ cbLog' = Notified(r, node[r].id, "success")
    /\ \/ /\ CallbackReturns
          /\ processedNodes' = [processedNodes EXCEPT ![r] = @ \cup {node[r].id}]
          /\ runLog' = [runLog EXCEPT ![r].steps =
                 Append(@, Step(node[r], "success", output[r], now - startTime[r]))]
          /\ pc' = [pc EXCEPT ![r] = "loop"]
          /\ UNCHANGED err
       \/ /\ CallbackThrows
          /\ err' = [err EXCEPT ![r] = CallbackError]
          /\ pc' = [pc EXCEPT ![r] = "catch"]
          /\ UNCHANGED <<processedNodes, runLog>>
    /\ UNCHANGED <<args, stub, now, thread, executionContext, remainingNodes, iterationLimit,
                   node, startTime, output, calls, results>>

\* NodeError without the break: the loop goes on after a failed node
NodeErrorNoBreak(r) ==
    /\ pc[r] = "catch" /\ thread = r
    /\ cbLog' = Notified(r, node[r].id, "error")
    /\ \/ /\ CallbackReturns
          /\ runLog' = [runLog EXCEPT ![r].status = "error",
                                      ![r].steps = Append(@, Step(node[r], "error",
                                                                  err[r].message,
                                                                  now - startTime[r]))]
          /\ pc' = [pc EXCEPT ![r] = "loop"]
          /\ UNCHANGED thread
       \/ /\ CallbackThrows
          /\ pc' = [pc EXCEPT ![r] = "rejected"]
          /\ thread' = 0
          /\ UNCHANGED runLog
    /\ UNCHANGED <<args, stub, now, executionContext, processedNodes, remainingNodes,
                   iterationLimit, node, startTime, output, err, calls, results>>

\* NodeError that records the failed node as processed
NodeErrorMarksProcessed(r) ==
    /\ pc[r] = "catch" /\ thread = r
    /\ cbLog' = Notified(r, node[r].id, "error")
    /\ \/ /\ CallbackReturns
          /\ runLog' = [runLog EXCEPT ![r].status = "error",
                                      ![r].steps = Append(@, Step(node[r], "error", err[r].message,
                                                                  now - startTime[r]))]
          /\ processedNodes' = [processedNodes EXCEPT ![r] = @ \cup {node[r].id}]
          /\ pc' = [pc EXCEPT ![r] = "done"]
       \/ /\ CallbackThrows
          /\ pc' = [pc EXCEPT ![r] = "rejected"]
          /\ UNCHANGED <<runLog, processedNodes>>
    /\ thread' = 0
    /\ UNCHANGED <<args, stub, now, executionContext, remainingNodes,
                   iterationLimit, node, startTime, output, err, calls, results>>

\* the catch block: error callback, status, error step, break, return runLog
NodeError(r) ==
    /\ pc[r] = "catch" /\ thread = r
    /\ cbLog' = Notified(r, node[r].id, "error")
    /\ \/ /\ CallbackReturns
          /\ runLog' = [runLog EXCEPT ![r].status = "error",
                                      ![r].steps = Append(@, Step(node[r], "error", err[r].message,
                                                                  now - startTime[r]))]
          /\ pc' = [pc EXCEPT ![r] = "done"]
       \/ /\ CallbackThrows
          /\ pc' = [pc EXCEPT ![r] = "rejected"]
          /\ UNCHANGED runLog
    /\ thread' = 0
    /\ UNCHANGED <<args, stub, now, executionContext, processedNodes, remainingNodes,
                   iterationLimit, node, startTime, output, err, calls, results>>

(* -------------------------- specifications ----------------------------- *)
InitRun(started) ==
    /\ stub = {}
    /\ now = 0
    /\ thread = 0
    /\ pc = [r \in Runs |-> IF r \in started THEN "begin" ELSE "idle"]
    /\ runLog = [r \in Runs |-> [id |-> 0, timestamp |-> 0, status |-> "success",
                                 inputs |-> <<>>, outputs |-> <<>>, steps |-> <<>>]]
    /\ executionContext = [r \in Runs |-> <<>>]
    /\ processedNodes = [r \in Runs |-> {}]
    /\ remainingNodes = [r \in Runs |-> <<>>]
    /\ iterationLimit = [r \in Runs |-> IterationLimitStart]
    /\ node = [r \in Runs |-> NoNode]
    /\ startTime = [r \in Runs |-> 0]
    /\ output = [r \in Runs |-> <<>>]
    /\ err = [r \in Runs |-> NoError]
    /\ calls = [r \in Runs |-> <<>>]
    /\ results = [r \in Runs |-> <<>>]
    /\ cbLog = [r \in Runs |-> <<>>]

InitArgs(cfgs, cbs) ==
    \E cfg \in cfgs, cb \in cbs :
        /\ nodes = cfg.nodes
        /\ edges = cfg.edges
        /\ startInputs = cfg.startInputs
        /\ caseInputs \in [Runs -> cfg.cases]
        /\ versions = cfg.versions
        /\ availableAPIs = APIs
        /\ onNodeStatusUpdate = cb
        /\ linkingSource = ""
        /\ mounted = TRUE
        /\ NoBatch

\* one call of executeWorkflowEngine, any generation service
Init ==
    /\ InitArgs(Configs, Callbacks)
    /\ detStub = FALSE
    /\ InitRun({1})

RunStep(r) ==
    \/ ProcessStartNode(r)
    \/ LoopExit(r)
    \/ NoReadyNode(r)
    \/ SelectNode(r)
    \/ LlmVersionMissing(r)
    \/ LlmCall(r)
    \/ LlmResolve(r)
    \/ LlmReject(r)
    \/ ExecuteEnd(r)
    \/ NodeSuccess(r)
    \/ NodeError(r)

Next == Tick \/ \E r \in Runs : RunStep(r)

Spec == Init /\ [][Next]_vars

\* two calls of executeWorkflowEngine with the same arguments, a deterministic
\* generation stub and a callback that returns
PairConfigs ==
    {c \in Chain3Configs \cup Chain4Configs :
        /\ c.startInputs = << <<"topic", <<Lit("oceans")>> >> >>
        /\ Len(c.nodes) = 4 => /\ Len(c.edges) = 3
                               /\ c.edges[1].source = "start-node"
                               /\ \E i \in 1..4 : c.nodes[i].outputTemplate = <<Ph("out2")>>}
InitPair ==
    /\ InitArgs(PairConfigs, {"absent", "returns"})
    /\ detStub = TRUE
    /\ InitRun({1, 2})

SpecPair == InitPair /\ [][Next]_vars

\* a batch: two calls over one graph, each with its own test case's inputs,
\* any generation service, no callback
BatchCases ==
    {<< <<"topic", <<Lit("oceans")>> >> >>,
     << <<"topic", <<Lit("rivers")>> >>, <<"summary", <<Lit("old")>> >> >>}
BatchGraphs ==
    {c \in PairConfigs :
        /\ c.nodes[1].type = "start"
        /\ Len(c.nodes) = 3 => /\ Len(c.edges) \in {0, 2}
                               /\ \A i \in 1..3 : c.nodes[i].userPromptOverride = <<>>
                               /\ \E i \in 1..3 :
                                     c.nodes[i].outputTemplate = <<Ph("summary"), Ph("topic")>>
        /\ Len(c.nodes) = 4 => c.nodes[2].id = "g1" /\ c.nodes[3].id = "g2"}
BatchConfigs == {[c EXCEPT !.cases = BatchCases] : c \in BatchGraphs}
InitBatch ==
    /\ InitArgs(BatchConfigs, {"absent"})
    /\ caseInputs[1] = startInputs /\ caseInputs[2] # startInputs
    /\ detStub = FALSE
    /\ InitRun({1, 2})

SpecBatch == InitBatch /\ [][Next]_vars

\* the caller assigns a field of the object it passed as startInputs, while
\* the call is suspended or after it returned; runLog.inputs is that same
\* object (line 24), so the assignment shows through it
CallerValue == <<Lit("changed")>>
CallerMutatesInputs(r) ==
    /\ thread = 0 /\ pc[r] \in {"await", "done"}
    /\ \E i \in 1..Len(caseInputs[r]) :
          /\ caseInputs[r][i][2] # CallerValue
          /\ LET changed == ObjSet(caseInputs[r], caseInputs[r][i][1], CallerValue)
             IN  /\ caseInputs' = [caseInputs EXCEPT ![r] = changed]
                 /\ runLog' = [runLog EXCEPT ![r].inputs = changed]
    /\ UNCHANGED <<nodes, edges, startInputs, versions, availableAPIs, onNodeStatusUpdate,
                   detStub, stub, now, thread, pc, executionContext, processedNodes,
                   remainingNodes, iterationLimit, node, startTime, output, err, calls,
                   results, cbLog, editorState, poolState>>

\* one call, with a caller that may write to its inputs object meanwhile
CallerConfigs == {c \in PairConfigs : Len(c.nodes) = 3}
InitCaller ==
    /\ InitArgs(CallerConfigs, Callbacks)
    /\ detStub = FALSE
    /\ InitRun({1})
NextCaller == Next \/ \E r \in Runs : CallerMutatesInputs(r)

SpecCaller == InitCaller /\ [][NextCaller]_vars

\* one call on node lists long enough to use up the iteration limit (an Entry
\* node and about IterationLimitStart Exit nodes that are ready at once), and
\* on the short graphs; the clock stands still during the call
LongId(i) == "n" \o ToString(i)
LongNodes(k) == <<StartNode>> \o [i \in 1..k |-> EndNode(LongId(i), <<>>)]
LongConfigs ==
    {Config(LongNodes(k), <<>>, << <<"topic", <<Lit("oceans")>> >> >>, AllVersions) :
        k \in {IterationLimitStart - 1, IterationLimitStart, IterationLimitStart + 1}}
InitCeiling ==
    /\ InitArgs(LongConfigs \cup CallerConfigs \cup RawConfigs, Callbacks)
    /\ detStub = FALSE
    /\ InitRun({1})
NextCeiling == \E r \in Runs : RunStep(r)

SpecCeiling == InitCeiling /\ [][NextCeiling]_vars

\* one call on short graphs, among them graphs with a dependency cycle and
\* with nodes no edge reaches. The call keeps running until its next await or
\* its end (run to completion), and every generation call settles.
NodeCyc == LlmNode("g1", "v1", <<Ph("prev")>>, "summary")
CyclicEdges ==
    {<<Edge("g2", "g1", "prev"), Edge("g1", "g2", "summary"), Edge("g2", "end-node", "out2")>>,
     <<Edge("g1", "g1", "prev"), Edge("g1", "g2", "summary"), Edge("g2", "end-node", "out2")>>,
     <<Edge("start-node", "g1", "topic")>>}
CyclicConfigs ==
    {Config(<<StartNode, NodeCyc, NodeB, EndNode("end-node", <<Ph("out2")>>)>>, es,
            << <<"topic", <<Lit("oceans")>> >> >>, AllVersions) : es \in CyclicEdges}
InitLive ==
    /\ InitArgs(CallerConfigs \cup CyclicConfigs, Callbacks)
    /\ detStub = FALSE
    /\ InitRun({1})
Fairness == \A r \in Runs : WF_vars(RunStep(r))

SpecLive == InitLive /\ [][Next]_vars /\ Fairness

(* --------------------------- the graph editor -------------------------- *)
\* WorkflowBuilderView: the state `nodes`, `edges`, `linkingSource` of the
\* component and its graph actions. Each action is one event handler with
\* the render that follows it; Date.now() supplies the ids.
engine == <<startInputs, caseInputs, versions, availableAPIs, onNodeStatusUpdate, detStub,
            stub, thread, pc, runLog, executionContext, processedNodes, remainingNodes,
            iterationLimit, node, startTime, output, err, calls, results, cbLog>>

\* the default graph of the initializing effect
DefaultGraph ==
    <<StartNode, EndNode("end-node", <<Lit("Result: "), Ph("node_1_result")>>)>>

EditorEdge(id, source, target, handle) ==
    [id |-> id, source |-> source, sourceHandle |-> "output", target |-> target,
     targetHandle |-> handle]

NodeIds == {nodes[i].id : i \in 1..Len(nodes)}

\* getVariablesForNode: the input handles the render gives a node
getVariablesForNode(n) == {RequiredVars(n)[i] : i \in 1..Len(RequiredVars(n))}

\* the render reads nodes.find(n => n.id === linkingSource.nodeId)!.x for the
\* temporary drag line: it throws when that node is gone
RenderThrows(ns, link) == link # "" /\ \A i \in 1..Len(ns) : ns[i].id # link

addNode ==
    /\ mounted /\ Len(nodes) < MaxNodes
    /\ nodes' = Append(nodes, LlmNode("node-" \o ToString(now), "", <<>>,
                                      "node_" \o ToString(Len(nodes)) \o "_result"))
    /\ UNCHANGED <<engine, poolState, now, edges, linkingSource, mounted>>

addEndNode ==
    /\ mounted /\ Len(nodes) < MaxNodes
    /\ nodes' = IF \E i \in 1..Len(nodes) : nodes[i].type = "end" THEN nodes
                 ELSE Append(nodes, EndNode("end-node-" \o ToString(now), <<Ph("result")>>))
    /\ UNCHANGED <<engine, poolState, now, edges, linkingSource, mounted>>

\* deleteNode that deletes the node alone and keeps its edges
deleteNodeKeepsEdges(id) ==
    /\ mounted /\ id \in NodeIds
    /\ \E confirmed \in BOOLEAN :
          IF id = "start-node" \/ ~confirmed
          THEN UNCHANGED <<nodes, edges, mounted>>
          ELSE LET kept == SelectSeq(nodes, LAMBDA n : n.id # id)
               IN  /\ nodes' = kept
                   /\ edges' = edges
                   /\ mounted' = ~RenderThrows(kept, linkingSource)
    /\ UNCHANGED <<engine, poolState, now, linkingSource>>

deleteNode(id) ==
    /\ mounted /\ id \in NodeIds
    /\ \E confirmed \in BOOLEAN :
          IF id = "start-node" \/ ~confirmed
          THEN UNCHANGED <<nodes, edges, mounted>>
          ELSE LET kept == SelectSeq(nodes, LAMBDA n : n.id # id)
               IN  /\ nodes' = kept
                   /\ edges' = SelectSeq(edges, LAMBDA e : e.source # id /\ e.target # id)
                   /\ mounted' = ~RenderThrows(kept, linkingSource)
    /\ UNCHANGED <<engine, poolState, now, linkingSource>>

deleteEdge(edgeId) ==
    /\ mounted /\ \E i \in 1..Len(edges) : edges[i].id = edgeId
    /\ \E confirmed \in BOOLEAN :
          edges' = IF confirmed THEN SelectSeq(edges, LAMBDA e : e.id # edgeId) ELSE edges
    /\ UNCHANGED <<engine, poolState, now, nodes, linkingSource, mounted>>

\* the version select of the side panel: handleUpdateNodeData(id, {versionId})
handleUpdateNodeData(id, versionId) ==
    /\ mounted
    /\ \E i \in 1..Len(nodes) : nodes[i].id = id /\ nodes[i].type = "llm"
    /\ nodes' = [i \in 1..Len(nodes) |->
                    IF nodes[i].id = id THEN [nodes[i] EXCEPT !.versionId = versionId]
                    ELSE nodes[i]]
    /\ UNCHANGED <<engine, poolState, now, edges, linkingSource, mounted>>

\* mouse down on the output handle of a node that is not an End node
handleLinkStart(nodeId) ==
    /\ mounted
    /\ \E i \in 1..Len(nodes) : nodes[i].id = nodeId /\ nodes[i].type # "end"
    /\ linkingSource' = nodeId
    /\ UNCHANGED <<engine, poolState, now, nodes, edges, mounted>>

\* mouse up anywhere but on an input handle: the window's listener
handleMouseUp ==
    /\ mounted /\ linkingSource # ""
    /\ linkingSource' = ""
    /\ UNCHANGED <<engine, poolState, now, nodes, edges, mounted>>

\* handleLinkEnd that appends the new edge to the edges as they are
handleLinkEndKeepsOld(nodeId, handle) ==
    /\ mounted /\ linkingSource # ""
    /\ \E i \in 1..Len(nodes) :
          /\ nodes[i].id = nodeId /\ nodes[i].type # "start"
          /\ handle \in getVariablesForNode(nodes[i])
    /\ IF linkingSource = nodeId
       THEN UNCHANGED <<edges, linkingSource>>
       ELSE /\ edges' = Append(edges, EditorEdge("edge-" \o ToString(now), linkingSource,
                                                 nodeId, handle))
            /\ linkingSource' = ""
    /\ UNCHANGED <<engine, poolState, now, nodes, mounted>>

\* mouse up on an input handle of a node while a link is being drawn
handleLinkEnd(nodeId, handle) ==
    /\ mounted /\ linkingSource # ""
    /\ \E i \in 1..Len(nodes) :
          /\ nodes[i].id = nodeId /\ nodes[i].type # "start"
          /\ handle \in getVariablesForNode(nodes[i])
    /\ IF linkingSource = nodeId
       THEN UNCHANGED <<edges, linkingSource>>
       ELSE LET cleanEdges == SelectSeq(edges, LAMBDA ed :
                                 ~(ed.target = nodeId /\ ed.targetHandle = handle))
            IN  /\ edges' = Append(cleanEdges, EditorEdge("edge-" \o ToString(now),
                                                          linkingSource, nodeId, handle))
                /\ linkingSource' = ""
    /\ UNCHANGED <<engine, poolState, now, nodes, mounted>>

EditorIds == {"start-node", "end-node"}
                 \cup {"node-" \o ToString(t) : t \in 0..MaxClock}
                 \cup {"end-node-" \o ToString(t) : t \in 0..MaxClock}
EditorHandles == {"topic", "result", "node_1_result"}

InitEditor ==
    /\ nodes = DefaultGraph
    /\ edges = <<>>
    /\ startInputs = <<>>
    /\ caseInputs = [r \in Runs |-> <<>>]
    /\ versions = AllVersions
    /\ availableAPIs = APIs
    /\ onNodeStatusUpdate = "absent"
    /\ detStub = FALSE
    /\ linkingSource = ""
    /\ mounted = TRUE
    /\ NoBatch
    /\ InitRun({})

NextEditor ==
    \/ Tick
    \/ addNode
    \/ addEndNode
    \/ \E id \in EditorIds : deleteNode(id)
    \/ \E t \in 0..MaxClock : deleteEdge("edge-" \o ToString(t))
    \/ \E id \in EditorIds, v \in {"v1"} : handleUpdateNodeData(id, v)
    \/ \E id \in EditorIds : handleLinkStart(id)
    \/ handleMouseUp
    \/ \E id \in EditorIds, h \in EditorHandles : handleLinkEnd(id, h)

SpecEditor == InitEditor /\ [][NextEditor]_vars

(* ---------------------------- the batch run ---------------------------- *)
\* BatchTestView.executeBatch on a workflow version: three workers share one
\* queue of test cases. A worker runs without interruption from its start or
\* from the settling of its awaited call to its next await or its end.
RunKinds == {"success", "error", "rejects"}
CaseId(i) == "c" \o ToString(i)
Datasets ==
    UNION {{[i \in 1..n |-> [id |-> CaseId(i), run |-> f[i]]] : f \in [1..n -> RunKinds]}
           : n \in 0..MaxCases}

\* finalResults.push(result); completed++
Record(st, tc, status, startT) ==
    [st EXCEPT !.finalResults = Append(@, [caseId |-> tc.id, status |-> status,
                                           latency |-> now - startT]),
               !.completed = @ + 1]

\* the while loop of a worker from its head to the next await or to its end
RECURSIVE WorkerLoop(_, _)
WorkerLoop(st, w) ==
    IF st.queue = <<>>
    THEN [st EXCEPT !.worker[w].pc = "finished"]
    ELSE LET tc == Head(st.queue)
             taken == [st EXCEPT !.queue = Tail(@), !.startedCases = Append(@, tc.id)]
         IN  IF graphJson = "invalid"
             THEN WorkerLoop(Record(taken, tc, "error", now), w)
             ELSE [taken EXCEPT !.worker[w] = [pc |-> "await", testCase |-> tc, start |-> now]]

PoolRecord == [queue |-> queue, finalResults |-> finalResults, completed |-> completed,
               worker |-> worker, startedCases |-> startedCases]

SetPool(st) ==
    /\ queue' = st.queue
    /\ finalResults' = st.finalResults
    /\ completed' = st.completed
    /\ worker' = st.worker
    /\ startedCases' = st.startedCases

\* executeBatch up to the await of Promise.all: the run is added to the
\* history and the three workers are started one after the other
executeBatch ==
    /\ batchRun.status = "none"
    /\ batchRun' = [status |-> "running", progress |-> 0, totalCases |-> Len(dataset),
                    results |-> <<>>]
    /\ SetPool(WorkerLoop(WorkerLoop(WorkerLoop([PoolRecord EXCEPT !.queue = dataset], 1), 2), 3))
    /\ UNCHANGED <<nodes, edges, engine, editorState, now, dataset, graphJson>>

\* WorkerResume in which a failed case ends its worker
WorkerResumeBreaksOnError(w) ==
    /\ worker[w].pc = "await"
    /\ LET tc == worker[w].testCase
           status == IF tc.run = "success" THEN "success" ELSE "error"
           recorded == Record(PoolRecord, tc, status, worker[w].start)
       IN  SetPool(IF status = "error"
                   THEN [recorded EXCEPT !.worker[w].pc = "finished"]
                   ELSE WorkerLoop(recorded, w))
    /\ UNCHANGED <<nodes, edges, engine, editorState, now, dataset, graphJson, batchRun>>

\* the awaited call of worker w settles: the result is recorded and the
\* worker goes on with its loop
WorkerResume(w) ==
    /\ worker[w].pc = "await"
    /\ LET tc == worker[w].testCase
           status == IF tc.run = "success" THEN "success" ELSE "error"
       IN  SetPool(WorkerLoop(Record(PoolRecord, tc, status, worker[w].start), w))
    /\ UNCHANGED <<nodes, edges, engine, editorState, now, dataset, graphJson, batchRun>>

\* Promise.all has resolved: the run in the history is replaced by the
\* finished one
FinalizeRun ==
    /\ batchRun.status = "running"
    /\ \A w \in Workers : worker[w].pc = "finished"
    /\ batchRun' = [batchRun EXCEPT !.status = "completed", !.progress = 100,
                                    !.results = finalResults]
    /\ UNCHANGED <<nodes, edges, engine, editorState, now, dataset, graphJson, queue,
                   finalResults, completed, worker, startedCases>>

InitPool ==
    /\ nodes = DefaultGraph
    /\ edges = <<>>
    /\ startInputs = <<>>
    /\ caseInputs = [r \in Runs |-> <<>>]
    /\ versions = AllVersions
    /\ availableAPIs = APIs
    /\ onNodeStatusUpdate = "absent"
    /\ detStub = FALSE
    /\ linkingSource = ""
    /\ mounted = TRUE
    /\ dataset \in Datasets
    /\ graphJson \in {"valid", "invalid"}
    /\ queue = <<>>
    /\ finalResults = <<>>
    /\ completed = 0
    /\ worker = [w \in Workers |-> [pc |-> "idle", testCase |-> NoCase, start |-> 0]]
    /\ batchRun = [status |-> "none", progress |-> 0, totalCases |-> 0, results |-> <<>>]
    /\ startedCases = <<>>
    /\ InitRun({})

NextPool ==
    \/ Tick
    \/ executeBatch
    \/ \E w \in Workers : WorkerResume(w)
    \/ FinalizeRun

\* every awaited call settles, and the continuation of Promise.all runs
PoolFairness == WF_vars(executeBatch) /\ WF_vars(FinalizeRun)
                    /\ \A w \in Workers : WF_vars(WorkerResume(w))

SpecPool == InitPool /\ [][NextPool]_vars /\ PoolFairness

(* ------------------------ vocabulary of the claims --------------------- *)
Returned(r) == pc[r] = "done"
Steps(r) == runLog[r].steps
StepIds(r) == {Steps(r)[i].nodeId : i \in 1..Len(Steps(r))}
SuccessIds(r) == {Steps(r)[i].nodeId : i \in {j \in 1..Len(Steps(r)) : Steps(r)[j].status = "success"}}
Range(seq) == {seq[i] : i \in 1..Len(seq)}
HasFinal(r) == "final" \in ObjKeys(runLog[r].outputs)
Final(r) == ObjGet(runLog[r].outputs, "final")

\* a template in which every placeholder whose name has a value in m is
\* replaced by that value as it stands, and every other token is left verbatim
LiteralSubst(template, m) ==
    LET one(t) == IF t.k = "ph" /\ t.s \in DOMAIN m THEN m[t.s] ELSE <<t>>
    IN  FlatMap(one, template)

\* the template an llm node renders
EffectiveTemplate(n) ==
    IF n.userPromptOverride # <<>> THEN n.userPromptOverride
    ELSE versions[VersionIndex(n.versionId)].content

HasEdge(source, target) ==
    \E i \in 1..Len(edges) : edges[i].source = source /\ edges[i].target = target

(* ------------------------------- C1 ------------------------------------ *)
\* C1: when a node's execution raised, the returned run log has status
\* 'error', the failing node's error step is its last step, every earlier
\* step is a success, and the steps are exactly the nodes taken out of the
\* pending list (no node executed after the failure).
C1_StopsAtFirstFailure ==
    \A r \in Runs :
        (Returned(r) /\ err[r].thrown) =>
            LET st == Steps(r)
            IN  /\ runLog[r].status = "error"
                /\ Len(st) >= 1
                /\ st[Len(st)].nodeId = node[r].id
                /\ st[Len(st)].status = "error"
                /\ \A i \in 1..(Len(st) - 1) : st[i].status = "success"
                /\ Len(st) = Len(nodes) - Len(remainingNodes[r])
                /\ \A i \in 1..Len(remainingNodes[r]) : remainingNodes[r][i].id \notin StepIds(r)

\* a run that failed at its second node while another node was still pending
C1_Witness ==
    \E r \in Runs :
        /\ Returned(r) /\ err[r].thrown
        /\ Len(Steps(r)) = 2
        /\ Len(remainingNodes[r]) >= 1

(* ------------------------------- C2 ------------------------------------ *)
\* C2: executeWorkflowEngine never rejects, whatever the status callback does.
C2_NeverRejects == \A r \in Runs : pc[r] # "rejected"

(* ------------------------------- C3 ------------------------------------ *)
\* the graph [Entry, g1, Exit] of the concrete scenario
C3Graph ==
    /\ Len(nodes) = 3
    /\ nodes[1].type = "start" /\ nodes[2].type = "llm" /\ nodes[3].type = "end"
    /\ VersionIndex(nodes[2].versionId) # 0
    /\ getVariables(EffectiveTemplate(nodes[2])) # <<>>
    /\ Range(getVariables(EffectiveTemplate(nodes[2]))) \subseteq ObjKeys(startInputs)
    /\ nodes[2].outputVariableName # ""
    /\ nodes[2].outputVariableName \in Range(getVariables(nodes[3].outputTemplate))
    /\ HasEdge(nodes[1].id, nodes[2].id)
    /\ HasEdge(nodes[2].id, nodes[3].id)

\* C3: in the graph [Entry, g1, Exit] with a successful generation call the log
\* has the three success steps Entry, g1, Exit, status 'success', and
\* outputs.final is the Exit template with g1's returned text in place of the
\* placeholder.
C3_ThreeStepsAndFinal ==
    \A r \in Runs :
        (/\ Returned(r) /\ C3Graph
         /\ onNodeStatusUpdate # "may throw"
         /\ results[r] # <<>> /\ results[r][1].ok) =>
            LET st == Steps(r)
            IN  /\ Len(st) = 3
                /\ \A i \in 1..3 : st[i].nodeId = nodes[i].id /\ st[i].status = "success"
                /\ runLog[r].status = "success"
                /\ HasFinal(r)
                /\ Final(r) = LiteralSubst(nodes[3].outputTemplate,
                                  CtxSet(SpreadCopy(startInputs), nodes[2].outputVariableName,
                                         results[r][1].text))

(* ------------------------------- C4 ------------------------------------ *)
\* an Entry node and an Exit node, no edges
C4Graph ==
    /\ Len(nodes) = 2 /\ edges = <<>>
    /\ {nodes[1].type, nodes[2].type} = {"start", "end"}

C4ExitNode == IF nodes[1].type = "end" THEN nodes[1] ELSE nodes[2]

\* C4: with only an Entry and an Exit node, outputs.final is the Exit template
\* with each placeholder naming an initial input replaced by that input's
\* value and every other placeholder left verbatim.
C4_FinalIsSubstitutedTemplate ==
    \A r \in Runs :
        (Returned(r) /\ C4Graph) =>
            /\ HasFinal(r)
            /\ Final(r) = LiteralSubst(C4ExitNode.outputTemplate, SpreadCopy(startInputs))

(* ------------------------------- C5 ------------------------------------ *)
\* a and b are the Generate nodes A and B of a chain Entry -> A -> B -> Exit
\* in which B's prompt references A's declared output variable (a name that
\* only A supplies: it is not among the initial inputs)
C5Chain(a, b) ==
    /\ Len(nodes) = 4
    /\ a.type = "llm" /\ b.type = "llm" /\ a.id # b.id
    /\ VersionIndex(a.versionId) # 0 /\ VersionIndex(b.versionId) # 0
    /\ a.outputVariableName # ""
    /\ a.outputVariableName \notin ObjKeys(startInputs)
    /\ a.outputVariableName \in Range(getVariables(EffectiveTemplate(b)))
    /\ \E s \in Range(nodes), e \in Range(nodes) :
          /\ s.type = "start" /\ e.type = "end"
          /\ HasEdge(s.id, a.id) /\ HasEdge(a.id, b.id) /\ HasEdge(b.id, e.id)

\* C5: in a chain Entry -> A -> B -> Exit, B's generation call is made only
\* after A has succeeded, and its prompt is B's template with A's returned
\* text in place of A's output variable.
C5_PromptOfBHasTextOfA ==
    \A r \in Runs : \A a \in Range(nodes), b \in Range(nodes) :
        C5Chain(a, b) =>
            \A i \in 1..Len(calls[r]) :
                calls[r][i].nodeId = b.id =>
                    \E j \in 1..(i - 1) :
                        /\ calls[r][j].nodeId = a.id
                        /\ results[r][j].ok
                        /\ a.id \in SuccessIds(r)
                        /\ calls[r][i].args.promptContent =
                               LiteralSubst(EffectiveTemplate(b),
                                   CtxSet(SpreadCopy(startInputs), a.outputVariableName,
                                          results[r][j].text))

(* ------------------------------- C6 ------------------------------------ *)
NodeById(id) == nodes[NodeIndex(id)]

\* C6 as stated: a Generate node with an input bound by an edge whose source
\* node never executes successfully has no step in the log of the finished run.
C6_NoStepWithoutSource ==
    \A r \in Runs :
        pc[r] \in {"done", "rejected"} =>
            \A n \in Range(nodes) : \A i \in 1..Len(edges) :
                (/\ n.type = "llm"
                 /\ NodeIndex(edges[i].source) # 0
                 /\ edges[i].target = n.id
                 /\ edges[i].targetHandle \in Range(RequiredVars(n))
                 /\ edges[i].source \notin SuccessIds(r)) => n.id \notin StepIds(r)

Selected(r) == pc[r] \in {"try", "await", "succeeded", "catch"}

\* C6 amended: a Generate node that is selected or has a step has, for each
\* required variable that is not a key of the execution context, a first
\* binding edge whose source has a success step (before the node's own step).
C6_NoStepWithoutSourceOrValue ==
    \A r \in Runs :
        /\ \A i \in 1..Len(Steps(r)) :
              LET n == NodeById(Steps(r)[i].nodeId)
              IN  n.type = "llm" =>
                    \A v \in Range(RequiredVars(n)) :
                        v \notin DOMAIN executionContext[r] =>
                            /\ EdgeIndex(n.id, v) # 0
                            /\ \E j \in 1..(i - 1) :
                                  /\ Steps(r)[j].nodeId = edges[EdgeIndex(n.id, v)].source
                                  /\ Steps(r)[j].status = "success"
        /\ (Selected(r) /\ node[r].type = "llm") =>
              \A v \in Range(RequiredVars(node[r])) :
                  v \notin DOMAIN executionContext[r] =>
                      /\ EdgeIndex(node[r].id, v) # 0
                      /\ edges[EdgeIndex(node[r].id, v)].source \in SuccessIds(r)

\* a finished run in which a Generate node stayed pending because the source
\* of its edge failed
C6_Witness ==
    \E r \in Runs : \E i \in 1..Len(remainingNodes[r]) :
        LET n == remainingNodes[r][i]
        IN  /\ Returned(r) /\ n.type = "llm"
            /\ \E v \in Range(RequiredVars(n)) :
                  /\ v \notin DOMAIN executionContext[r]
                  /\ EdgeIndex(n.id, v) # 0
                  /\ edges[EdgeIndex(n.id, v)].source \in StepIds(r) \ SuccessIds(r)

(* ------------------------------- C7 ------------------------------------ *)
\* a step without its latency
StepContent(st) == [nodeId |-> st.nodeId, nodeName |-> st.nodeName, status |-> st.status,
                    output |-> st.output]
StepContents(r) == [i \in 1..Len(Steps(r)) |-> StepContent(Steps(r)[i])]

\* C7: two runs on the same arguments with a deterministic generation stub
\* return the same steps (ids, statuses, outputs, order), status and outputs.
C7_Deterministic ==
    \A r \in Runs, q \in Runs :
        (detStub /\ Returned(r) /\ Returned(q)) =>
            /\ StepContents(r) = StepContents(q)
            /\ runLog[r].status = runLog[q].status
            /\ runLog[r].outputs = runLog[q].outputs

\* both runs returned after each executed a Generate node and an Exit node
C7_Witness ==
    /\ detStub
    /\ \A r \in Runs : Returned(r) /\ Len(calls[r]) >= 1 /\ HasFinal(r)

(* ------------------------------- C8 ------------------------------------ *)
\* C8: when the generation call of a node failed with message m, the run
\* returns with that node's step last, status 'error', output m; in the graph
\* [Entry, g1, Exit] the log is Entry success, g1 error, status 'error', the
\* Exit node has no step and outputs.final is not set.
C8_ErrorStepHasMessage ==
    \A r \in Runs :
        (Returned(r) /\ results[r] # <<>> /\ ~results[r][Len(results[r])].ok) =>
            LET st == Steps(r)
                last == st[Len(st)]
            IN  /\ Len(st) >= 1
                /\ last.nodeId = calls[r][Len(calls[r])].nodeId
                /\ last.status = "error"
                /\ last.output = results[r][Len(results[r])].text
                /\ runLog[r].status = "error"
                /\ C3Graph =>
                      /\ Len(st) = 2
                      /\ st[1].nodeId = nodes[1].id /\ st[1].status = "success"
                      /\ st[2].nodeId = nodes[2].id
                      /\ nodes[3].id \notin StepIds(r)
                      /\ ~HasFinal(r)

C8_Witness ==
    \E r \in Runs :
        /\ Returned(r) /\ C3Graph
        /\ results[r] # <<>> /\ ~results[r][Len(results[r])].ok

(* ------------------------------- C9 ------------------------------------ *)
VersionMissing(n) == n.type = "llm" /\ VersionIndex(n.versionId) = 0

\* C9: the generation service is never called for a Generate node whose
\* prompt definition is missing; such a node's step is an error step and the
\* last step; the run that executed it returns with status 'error'.
C9_MissingVersionStops ==
    \A r \in Runs :
        /\ \A i \in 1..Len(calls[r]) : ~VersionMissing(NodeById(calls[r][i].nodeId))
        /\ \A i \in 1..Len(Steps(r)) :
              VersionMissing(NodeById(Steps(r)[i].nodeId)) =>
                  /\ Steps(r)[i].status = "error"
                  /\ i = Len(Steps(r))
        /\ (Selected(r) /\ VersionMissing(node[r])) => pc[r] \in {"try", "catch"}
        /\ (Returned(r) /\ VersionMissing(node[r])) =>
              /\ runLog[r].status = "error"
              /\ Steps(r)[Len(Steps(r))].nodeId = node[r].id
              /\ Steps(r)[Len(Steps(r))].status = "error"

\* a run that returned after a node with a missing prompt definition, with
\* another node still pending
C9_Witness ==
    \E r \in Runs :
        /\ Returned(r) /\ VersionMissing(node[r])
        /\ Len(remainingNodes[r]) >= 1

(* ------------------------------- C10 ----------------------------------- *)
\* C10: the status of the run log is 'error' exactly when one of its steps
\* has status 'error'; a run that stops on unreachable pending nodes keeps
\* status 'success'.
C10_StatusIffErrorStep ==
    \A r \in Runs :
        /\ runLog[r].status \in {"success", "error"}
        /\ runLog[r].status = "error" <=>
              \E i \in 1..Len(Steps(r)) : Steps(r)[i].status = "error"

\* a run that returned with status 'success' while a node was still pending
C10_Witness ==
    \E r \in Runs :
        /\ Returned(r)
        /\ Len(remainingNodes[r]) >= 1
        /\ runLog[r].status = "success"

(* ------------------------------- C11 ----------------------------------- *)
Binds(e, n, v) == e.target = n.id /\ e.targetHandle = v

\* every required variable is in the context or bound by some edge from a
\* processed source
ReadyByAnyEdge(n, ctx, processed) ==
    \A v \in Range(RequiredVars(n)) :
        \/ v \in DOMAIN ctx
        \/ \E i \in 1..Len(edges) : Binds(edges[i], n, v) /\ edges[i].source \in processed

\* every required variable is in the context or its first binding edge (in
\* edge-list order) comes from a processed source
ReadyByFirstEdge(n, ctx, processed) ==
    \A v \in Range(RequiredVars(n)) :
        \/ v \in DOMAIN ctx
        \/ \E i \in 1..Len(edges) :
              /\ Binds(edges[i], n, v) /\ edges[i].source \in processed
              /\ \A j \in 1..(i - 1) : ~Binds(edges[j], n, v)

\* a scan of run r that selects a node selects one that is Ready and passes
\* over pending nodes that are not; a scan that selects none found none Ready
ScanAgrees(Ready(_, _, _)) ==
    \A r \in Runs :
        (pc[r] = "loop" /\ pc'[r] # "loop" /\ LoopCondition(r)) =>
            LET pend == remainingNodes[r]
                ctx == executionContext[r]
                proc == processedNodes[r]
            IN  IF Len(remainingNodes'[r]) < Len(pend)
                THEN \E k \in 1..Len(pend) :
                        /\ node'[r] = pend[k]
                        /\ Ready(pend[k], ctx, proc)
                        /\ \A j \in 1..(k - 1) : ~Ready(pend[j], ctx, proc)
                ELSE \A k \in 1..Len(pend) : ~Ready(pend[k], ctx, proc)

\* C11 as stated: the scan treats a pending node as ready exactly when every
\* required variable is in the context or bound by some edge whose source is
\* processed.
C11_ReadyIffAnyEdge == [][ScanAgrees(ReadyByAnyEdge)]_vars

\* C11 amended: ... or bound by the first edge (in edge-list order) for that
\* target and handle, whose source is processed.
C11_ReadyIffFirstEdge == [][ScanAgrees(ReadyByFirstEdge)]_vars

\* a run that stopped with a pending node whose variable is bound by two
\* edges, the second from a processed source, the first not
C11_Witness ==
    \E r \in Runs : \E i \in 1..Len(remainingNodes[r]) :
        /\ Returned(r) /\ ~err[r].thrown
        /\ ReadyByAnyEdge(remainingNodes[r][i], executionContext[r], processedNodes[r])
        /\ ~ReadyByFirstEdge(remainingNodes[r][i], executionContext[r], processedNodes[r])

(* ------------------------------- C12 ----------------------------------- *)
\* C12: the node a scan selects is the first node of the original node list
\* that is pending and ready.
C12_EarliestReadyNode ==
    [][\A r \in Runs :
          (pc[r] = "loop" /\ Len(remainingNodes'[r]) < Len(remainingNodes[r])) =>
              \E k \in 1..Len(nodes) :
                  /\ nodes[k] = node'[r]
                  /\ nodes[k] \in Range(remainingNodes[r])
                  /\ \A j \in 1..(k - 1) :
                        ~(/\ nodes[j] \in Range(remainingNodes[r])
                          /\ ReadyByFirstEdge(nodes[j], executionContext[r],
                                              processedNodes[r]))]_vars

\* a node has been selected while a later pending node was ready too
C12_Witness ==
    \E r \in Runs : \E i \in 1..Len(remainingNodes[r]) :
        /\ pc[r] = "try"
        /\ ReadyByFirstEdge(remainingNodes[r][i], executionContext[r], processedNodes[r])

(* ------------------------------- C13 ----------------------------------- *)
\* C13: no step of a run removes a key of the execution context or changes
\* the value stored under it.
C13_ContextWriteOnce ==
    [][\A r \in Runs : \A k \in DOMAIN executionContext[r] :
          /\ k \in DOMAIN executionContext'[r]
          /\ executionContext'[r][k] = executionContext[r][k]]_vars

(* ------------------------------- C14 ----------------------------------- *)
UniqueIds == \A i \in 1..Len(nodes), j \in 1..Len(nodes) : nodes[i].id = nodes[j].id => i = j

\* C14: with unique node ids, no two steps of a run have the same node id, a
\* node with a step is no longer pending, and the node being executed has no
\* step yet and is no longer pending.
C14_ExecutedOnce ==
    \A r \in Runs :
        UniqueIds =>
            /\ \A i \in 1..Len(Steps(r)), j \in 1..Len(Steps(r)) :
                  Steps(r)[i].nodeId = Steps(r)[j].nodeId => i = j
            /\ \A i \in 1..Len(remainingNodes[r]) : remainingNodes[r][i].id \notin StepIds(r)
            /\ Selected(r) => /\ node[r].id \notin StepIds(r)
                              /\ node[r] \notin Range(remainingNodes[r])

\* a returned run in which three nodes have executed and others are pending
C14_Witness ==
    \E r \in Runs : /\ Returned(r) /\ UniqueIds
                    /\ Len(Steps(r)) >= 3 /\ remainingNodes[r] # <<>>

(* ------------------------------- C15 ----------------------------------- *)
\* the last generation call of run r has resolved with a text
LastCallResolved(r) ==
    /\ calls[r] # <<>> /\ Len(results[r]) = Len(calls[r])
    /\ results[r][Len(results[r])].ok

\* C15: once a Generate node's call has resolved with text t, and until the
\* next call is made (so at every scan in between), the context holds t under
\* the node's raw-output key and, if the node declares an output variable,
\* under that name.
C15_OutputsPublished ==
    \A r \in Runs :
        LastCallResolved(r) =>
            LET n == NodeById(calls[r][Len(calls[r])].nodeId)
                t == results[r][Len(results[r])].text
                ctx == executionContext[r]
            IN  /\ RawKey(n.id) \in DOMAIN ctx /\ ctx[RawKey(n.id)] = t
                /\ n.outputVariableName # "" =>
                      /\ n.outputVariableName \in DOMAIN ctx
                      /\ ctx[n.outputVariableName] = t

\* a scan is about to start after a Generate node with a declared output
\* variable has succeeded
C15_Witness ==
    \E r \in Runs :
        /\ pc[r] = "loop" /\ LastCallResolved(r) /\ LoopCondition(r)
        /\ NodeById(calls[r][Len(calls[r])].nodeId).outputVariableName # ""
        /\ calls[r][Len(calls[r])].nodeId \in SuccessIds(r)

(* ------------------------------- C16 ----------------------------------- *)
ExitSuccessSteps(r) ==
    {i \in 1..Len(Steps(r)) : /\ Steps(r)[i].status = "success"
                              /\ NodeIndex(Steps(r)[i].nodeId) # 0
                              /\ NodeById(Steps(r)[i].nodeId).type = "end"}

\* C16: in a returned log, outputs has the key "final" exactly when some Exit
\* node has a success step; its value is the output of the last such step;
\* outputs has no other key.
C16_FinalIffExitSucceeded ==
    \A r \in Runs :
        Returned(r) =>
            /\ HasFinal(r) <=> ExitSuccessSteps(r) # {}
            /\ HasFinal(r) =>
                  \E i \in ExitSuccessSteps(r) :
                      /\ \A j \in ExitSuccessSteps(r) : j <= i
                      /\ Final(r) = Steps(r)[i].output
            /\ ObjKeys(runLog[r].outputs) \subseteq {"final"}

(* ------------------------------- C17 ----------------------------------- *)
Terminal(e) == e[2] \in {"success", "error"}

\* C17: with a status callback that returns, every node with a step in a
\* returned log was announced 'running' and, after that, with exactly one
\* terminal status.
C17_RunningThenOneTerminal ==
    \A r \in Runs :
        (Returned(r) /\ onNodeStatusUpdate = "returns") =>
            \A id \in StepIds(r) :
                /\ \E a \in 1..Len(cbLog[r]), b \in 1..Len(cbLog[r]) :
                      /\ a < b
                      /\ cbLog[r][a] = <<id, "running">>
                      /\ cbLog[r][b][1] = id /\ Terminal(cbLog[r][b])
                /\ Cardinality({b \in 1..Len(cbLog[r]) :
                                   cbLog[r][b][1] = id /\ Terminal(cbLog[r][b])}) = 1

(* ------------------------------- C18 ----------------------------------- *)
\* a generation call of run r has been made and has not settled yet
Outstanding(r) == Len(calls[r]) > Len(results[r])

\* node ids announced 'running' with no terminal status after it
RunningIds(r) ==
    {cbLog[r][a][1] : a \in {x \in 1..Len(cbLog[r]) :
        /\ cbLog[r][x][2] = "running"
        /\ \A b \in (x + 1)..Len(cbLog[r]) :
              ~(cbLog[r][b][1] = cbLog[r][x][1] /\ Terminal(cbLog[r][b]))}}

\* what a scan, a node start or a step of run r would change
Progress(r) == <<runLog[r], processedNodes[r], remainingNodes[r], iterationLimit[r],
                 node[r], startTime[r], cbLog[r], Len(calls[r])>>

\* C18: within a run at most one node is in the running state, and while a
\* generation call is outstanding the run selects no node, starts no node and
\* appends no step; the only thing that happens to it is the call settling.
C18_OneNodeAtATime ==
    [][\A r \in Runs : /\ Cardinality(RunningIds(r)) <= 1
                       /\ Cardinality(RunningIds(r)') <= 1
                       /\ Outstanding(r) => Progress(r)' = Progress(r)]_vars

\* a call is outstanding while another pending node is ready
C18_Witness ==
    \E r \in Runs : \E i \in 1..Len(remainingNodes[r]) :
        /\ Outstanding(r) /\ onNodeStatusUpdate # "absent"
        /\ ReadyByFirstEdge(remainingNodes[r][i], executionContext[r], processedNodes[r])

(* ------------------------------- C19 ----------------------------------- *)
\* C19: no step of the engine changes the node list, the edge list, the
\* initial inputs, the version lookup or the model-configuration list.
C19_InputsUnchanged ==
    [][UNCHANGED <<nodes, edges, startInputs, caseInputs, versions, availableAPIs>>]_vars

\* a run has returned with its pending list emptied and its context grown,
\* over a node list of three nodes or more
C19_Witness ==
    \E r \in Runs :
        /\ Returned(r) /\ remainingNodes[r] = <<>> /\ Len(nodes) >= 3
        /\ Cardinality(DOMAIN executionContext[r]) > Len(startInputs)
        /\ runLog[r].inputs = caseInputs[r]

(* ------------------------------- C20 ----------------------------------- *)
\* the log of a call executed alone on inputs `ins`, the generation service
\* giving `outcomes` in call order: steps (without latency), outputs, status
SoloStep(n, status, out) == [nodeId |-> n.id, nodeName |-> n.name, status |-> status,
                             output |-> out]
SoloFail(st, n, message) ==
    [status |-> "error", outputs |-> st.outputs,
     steps |-> Append(st.steps, SoloStep(n, "error", message))]
RECURSIVE SoloLoop(_, _)
SoloLoop(st, outcomes) ==
    LET i == FindIndex(LAMBDA n : IsReady(n, st.ctx, st.processed), st.remaining)
        n == st.remaining[i]
        done(out, ctx, outs, k) ==
            SoloLoop([st EXCEPT !.ctx = ctx, !.outputs = outs, !.k = k,
                                !.processed = @ \cup {n.id},
                                !.remaining = Splice(@, i),
                                !.limit = @ - 1,
                                !.steps = Append(@, SoloStep(n, "success", out))],
                     outcomes)
    IN  IF Len(st.remaining) = 0 \/ st.limit = 0 \/ i = 0
        THEN [status |-> "success", outputs |-> st.outputs, steps |-> st.steps]
        ELSE IF n.type = "end"
        THEN LET out == EndOutput(n, st.ctx)
             IN  done(out, st.ctx, ObjSet(st.outputs, "final", out), st.k)
        ELSE IF VersionIndex(n.versionId) = 0
        THEN SoloFail(st, n, RefVersionNotFound.message)
        ELSE IF ~outcomes[st.k].ok
        THEN SoloFail(st, n, outcomes[st.k].text)
        ELSE done(outcomes[st.k].text, UpdateContext(st.ctx, n, outcomes[st.k].text),
                  st.outputs, st.k + 1)
SoloRun(ins, outcomes) ==
    LET si == FindIndex(LAMBDA n : n.type = "start", nodes)
    IN  SoloLoop([ctx |-> SpreadCopy(ins), outputs |-> <<>>, k |-> 1,
                  processed |-> IF si # 0 THEN {nodes[si].id} ELSE {},
                  remaining |-> SelectSeq(nodes, LAMBDA n : n.type # "start"),
                  limit |-> IterationLimitStart,
                  steps |-> IF si # 0
                            THEN <<SoloStep(nodes[si], "success", JsonStringify(ins))>>
                            ELSE <<>>],
                 outcomes)

\* the values a run may hold in its context: its own inputs and the texts
\* its own generation calls returned
OwnValues(r) ==
    {caseInputs[r][i][2] : i \in 1..Len(caseInputs[r])}
        \cup {results[r][i].text : i \in {j \in 1..Len(results[r]) : results[r][j].ok}}

\* C20: of runs interleaved at their generation calls, each returns the
\* steps, outputs and status that the same call executed alone returns for
\* the same service outcomes, and its context holds no value of another run.
C20_RunsIsolated ==
    \A r \in Runs :
        /\ \A k \in DOMAIN executionContext[r] : executionContext[r][k] \in OwnValues(r)
        /\ Returned(r) =>
              [status |-> runLog[r].status, outputs |-> runLog[r].outputs,
               steps |-> StepContents(r)] = SoloRun(caseInputs[r], results[r])

\* two runs on different inputs have returned with different service
\* outcomes; they started at the same clock value and each has a step that
\* took a clock tick, so they overlapped
C20_Witness ==
    /\ Returned(1) /\ Returned(2)
    /\ caseInputs[1] # caseInputs[2]
    /\ Len(results[1]) >= 2 /\ Len(results[2]) >= 2
    /\ results[1] # results[2]
    /\ runLog[1].timestamp = runLog[2].timestamp
    /\ \A r \in Runs : \E i \in 1..Len(Steps(r)) : Steps(r)[i].latency >= 1

(* ------------------------------- C21 ----------------------------------- *)
\* C21: the inputs field of a returned log holds the initial inputs as they
\* were passed, whatever the caller has done to its inputs object since.
C21_InputsIsCopy ==
    \A r \in Runs : Returned(r) => runLog[r].inputs = startInputs

(* ------------------------------- C22 ----------------------------------- *)
\* the loop condition is evaluated with the iteration limit used up and
\* nodes still pending
AtCeiling(r) ==
    /\ pc[r] = "loop" /\ thread = r
    /\ iterationLimit[r] = 0 /\ remainingNodes[r] # <<>>

\* C22: at the iteration ceiling with nodes pending the call returns, and the
\* log it returns is the log as it was: status and steps are untouched.
C22_CeilingIsNotAnError ==
    [][\A r \in Runs : AtCeiling(r) => pc'[r] = "done" /\ runLog'[r] = runLog[r]]_vars

\* a call has returned 'success' at the ceiling: 100 nodes executed after the
\* Entry node, one still pending
C22_Witness ==
    \E r \in Runs :
        /\ Returned(r) /\ iterationLimit[r] = 0 /\ remainingNodes[r] # <<>>
        /\ runLog[r].status = "success"
        /\ Len(Steps(r)) = IterationLimitStart + 1

(* ------------------------------- C25 ----------------------------------- *)
NonePendingReady(r) ==
    \A i \in 1..Len(remainingNodes[r]) :
        ~ReadyByFirstEdge(remainingNodes[r][i], executionContext[r], processedNodes[r])

\* C25 as stated: in a log returned with status 'success' no pending node is
\* ready for the final context and processed set.
C25_FixpointAtReturn ==
    \A r \in Runs : (Returned(r) /\ runLog[r].status = "success") => NonePendingReady(r)

\* C25 amended: ... unless the run used up its 100 iterations.
C25_FixpointUnlessCeiling ==
    \A r \in Runs :
        (Returned(r) /\ runLog[r].status = "success" /\ iterationLimit[r] > 0)
            => NonePendingReady(r)

\* a call has returned 'success' before the ceiling with a node pending
C25_Witness ==
    \E r \in Runs :
        /\ Returned(r) /\ runLog[r].status = "success" /\ iterationLimit[r] > 0
        /\ Len(remainingNodes[r]) >= 2 /\ Len(Steps(r)) >= 2

(* ------------------------------- C23 ----------------------------------- *)
\* C23: the variable names resolved for the node being executed are a set:
\* no name occurs twice.
C23_ResolverReturnsSet ==
    \A r \in Runs :
        Selected(r) =>
            LET vs == RequiredVars(node[r])
            IN  \A a \in 1..Len(vs), b \in 1..Len(vs) : vs[a] = vs[b] => a = b

(* ------------------------------- C29 ----------------------------------- *)
ObjAsMap(obj) == [k \in ObjKeys(obj) |-> ObjGet(obj, k)]

\* the values the Exit executor resolves: from the context by name, else the
\* raw output of the source of the variable's edge
EndValues(n, ctx) ==
    LET vs == Range(getVariables(n.outputTemplate))
        src(v) == NodeIndex(edges[EdgeIndex(n.id, v)].source)
        resolved == {v \in vs : \/ v \in DOMAIN ctx
                                \/ EdgeIndex(n.id, v) # 0 /\ src(v) # 0}
    IN  [v \in resolved |-> IF v \in DOMAIN ctx THEN ctx[v]
                            ELSE CtxGetOrEmpty(ctx, RawKey(nodes[src(v)].id))]

\* C29: the prompt sent for a Generate node and the output of an Exit node
\* are the node's template with every occurrence of each resolved placeholder
\* replaced by its value as it stands, all at once.
C29_LiteralSimultaneous ==
    \A r \in Runs :
        /\ pc[r] = "await" =>
              LastArgs(r).promptContent =
                  LiteralSubst(EffectiveTemplate(node[r]),
                               ObjAsMap(NodeInputs(node[r], executionContext[r])))
        /\ (pc[r] = "succeeded" /\ node[r].type = "end") =>
              output[r] = LiteralSubst(node[r].outputTemplate,
                                       EndValues(node[r], executionContext[r]))

(* ------------------------------- C24 ----------------------------------- *)
RawKeys == {RawKey(nodes[i].id) : i \in 1..Len(nodes)}

\* run r's generation call for node id has returned text
Produced(r, id, text) ==
    \E i \in 1..Len(results[r]) :
        calls[r][i].nodeId = id /\ results[r][i].ok /\ results[r][i].text = text

\* C24: a raw-output entry of the context was written by the execution of
\* its own node, and no variable name resolved for the node being executed
\* finds a raw-output entry in the context.
C24_RawKeysReserved ==
    \A r \in Runs :
        /\ \A i \in 1..Len(nodes) :
              RawKey(nodes[i].id) \in DOMAIN executionContext[r] =>
                  Produced(r, nodes[i].id, executionContext[r][RawKey(nodes[i].id)])
        /\ Selected(r) =>
              \A v \in Range(RequiredVars(node[r])) :
                  ~(v \in RawKeys /\ v \in DOMAIN executionContext[r])

(* ------------------------------- C26 ----------------------------------- *)
\* C26: in the record of status reports of a run, nothing is reported for a
\* node after its 'success' or 'error'; the terminal status reported for a
\* node is the status of its step in a returned log; and between the
\* 'running' reports of two nodes lies the terminal report of the first.
C26_NodeStateMachine ==
    \A r \in Runs :
        LET log == cbLog[r]
        IN  /\ \A a \in 1..Len(log), b \in 1..Len(log) :
                  (a < b /\ Terminal(log[a])) => log[b][1] # log[a][1]
            /\ Returned(r) =>
                  \A a \in 1..Len(log) :
                      Terminal(log[a]) =>
                          \E i \in 1..Len(Steps(r)) :
                              /\ Steps(r)[i].nodeId = log[a][1]
                              /\ Steps(r)[i].status = log[a][2]
            /\ \A a \in 1..Len(log), c \in 1..Len(log) :
                  (a < c /\ log[a][2] = "running" /\ log[c][2] = "running") =>
                      \E b \in (a + 1)..(c - 1) :
                          log[b][1] = log[a][1] /\ Terminal(log[b])

(* ------------------------------- C27 ----------------------------------- *)
EntryIndex == FindIndex(LAMBDA n : n.type = "start", nodes)

\* C27: with an Entry node in the node list, from the first scan on the first
\* step is the Entry node's, 'success' with the serialized initial inputs and
\* latency 0, the Entry node is processed, and it is neither pending nor the
\* node being executed, nor has it a second step.
C27_EntryFirst ==
    \A r \in Runs :
        (EntryIndex # 0 /\ pc[r] \in {"loop", "try", "await", "succeeded", "catch", "done"}) =>
            LET entry == nodes[EntryIndex]
            IN  /\ Steps(r) # <<>>
                /\ Steps(r)[1] = [nodeId |-> entry.id, nodeName |-> entry.name,
                                  status |-> "success", latency |-> 0,
                                  output |-> JsonStringify(startInputs)]
                /\ \A i \in 2..Len(Steps(r)) : Steps(r)[i].nodeId # entry.id
                /\ entry.id \in processedNodes[r]
                /\ entry \notin Range(remainingNodes[r])
                /\ Selected(r) => node[r] # entry

\* a call on a list whose Entry node is not first has returned three steps
C27_Witness ==
    \E r \in Runs :
        /\ Returned(r) /\ EntryIndex > 1 /\ Len(Steps(r)) >= 3
        /\ startInputs # <<>> /\ now > runLog[r].timestamp

(* ------------------------------- C28 ----------------------------------- *)
BindingEdges(n, v) == {i \in 1..Len(edges) : Binds(edges[i], n, v)}
FirstBinding(n, v) == CHOOSE i \in BindingEdges(n, v) : \A j \in BindingEdges(n, v) : i <= j

\* what the Generate executor takes from a source node for variable v
ValueFrom(s, v, ctx) ==
    IF s.type = "start" THEN CtxGetOrEmpty(ctx, v)
    ELSE IF s.outputVariableName # "" /\ CtxGetOrEmpty(ctx, s.outputVariableName) # <<>>
         THEN ctx[s.outputVariableName]
         ELSE CtxGetOrEmpty(ctx, RawKey(s.id))

\* the variables of the node being executed that the context does not hold
EdgeVars(r) ==
    {v \in Range(RequiredVars(node[r])) : v \notin DOMAIN executionContext[r]}

\* the Exit template with the variables of vs, in turn, replaced by the raw
\* output of the source of their first binding edge
RECURSIVE FillFromFirstEdges(_, _, _, _)
FillFromFirstEdges(template, n, vs, ctx) ==
    IF vs = <<>> THEN template
    ELSE LET v == Head(vs)
             val == IF v \in DOMAIN ctx THEN ctx[v]
                    ELSE CtxGetOrEmpty(ctx, RawKey(edges[FirstBinding(n, v)].source))
         IN  FillFromFirstEdges(ReplaceAll(template, v, val), n, Tail(vs), ctx)

\* C28: for the node being executed, every variable that the context does
\* not hold has a binding edge, the first such edge comes from a processed
\* node, and the value used is the one of that first edge's source: in the
\* inputs of a Generate call, and in the output of an Exit node. An error
\* raised for the node is a missing version, a failed call or a failed callback.
C28_FirstEdgeDecidesAndSupplies ==
    \A r \in Runs :
        /\ (pc[r] \in {"try", "await"} \/ (pc[r] = "succeeded" /\ node[r].type = "end")) =>
              \A v \in EdgeVars(r) :
                  /\ BindingEdges(node[r], v) # {}
                  /\ edges[FirstBinding(node[r], v)].source \in processedNodes[r]
        /\ pc[r] = "await" =>
              \A v \in EdgeVars(r) :
                  LET s == NodeById(edges[FirstBinding(node[r], v)].source)
                      nodeInputs == NodeInputs(node[r], executionContext[r])
                  IN  s.type \in {"start", "llm"} =>
                          /\ v \in ObjKeys(nodeInputs)
                          /\ ObjGet(nodeInputs, v) = ValueFrom(s, v, executionContext[r])
        /\ (pc[r] = "succeeded" /\ node[r].type = "end") =>
              output[r] = FillFromFirstEdges(node[r].outputTemplate, node[r],
                                             getVariables(node[r].outputTemplate),
                                             executionContext[r])
        /\ pc[r] = "catch" =>
              err[r].message \in GenErrors \cup {RefVersionNotFound.message, CallbackError.message}

\* a Generate call is outstanding for a node one of whose variables is bound
\* by two edges and not held by the context
C28_Witness ==
    \E r \in Runs :
        /\ pc[r] = "await"
        /\ \E v \in EdgeVars(r) : Cardinality(BindingEdges(node[r], v)) >= 2

(* ------------------------------- C30 ----------------------------------- *)
\* C30: when a Generate call is made, each variable that the context does not
\* hold by name and whose edge comes from a Generate node has, as its value,
\* a text that this source node's own call returned.
C30_EdgeValueIsSourceText ==
    \A r \in Runs :
        pc[r] = "await" =>
            \A v \in EdgeVars(r) :
                LET s == NodeById(edges[FirstBinding(node[r], v)].source)
                IN  s.type = "llm" =>
                        Produced(r, s.id, ObjGet(NodeInputs(node[r], executionContext[r]), v))

(* ------------------------------- C31 ----------------------------------- *)
\* every required variable of n is a key of the context
AllInContext(n, ctx) == \A v \in Range(RequiredVars(n)) : v \in DOMAIN ctx

\* some edge binds a required variable of n to a node that is not processed
BoundToUnprocessed(n, processed) ==
    \E v \in Range(RequiredVars(n)) :
        BindingEdges(n, v) # {} /\ edges[FirstBinding(n, v)].source \notin processed

\* the template with the variables of vs, in turn, replaced by their context
\* values
RECURSIVE FillFromContext(_, _, _)
FillFromContext(template, vs, ctx) ==
    IF vs = <<>> THEN template
    ELSE FillFromContext(ReplaceAll(template, Head(vs), ctx[Head(vs)]), Tail(vs), ctx)

\* C31: a scan does not pass over a pending node whose required variables
\* are all keys of the context, whatever edges bind them; the inputs of a
\* Generate call hold, for every required variable that is a key of the
\* context, the context value; and the output of an Exit node whose variables
\* are all keys of the context is its template filled with the context values.
C31_ContextBeforeEdges ==
    [][\A r \in Runs :
          /\ (pc[r] = "loop" /\ pc'[r] # "loop" /\ LoopCondition(r)) =>
                \A k \in 1..Len(remainingNodes[r]) :
                    AllInContext(remainingNodes[r][k], executionContext[r]) =>
                        \E j \in 1..k : /\ node'[r] = remainingNodes[r][j]
                                        /\ remainingNodes'[r] = Splice(remainingNodes[r], j)
          /\ pc'[r] = "await" =>
                LET sent == NodeInputs(node'[r], executionContext'[r])
                IN  \A v \in Range(RequiredVars(node'[r])) :
                        v \in DOMAIN executionContext'[r] =>
                            /\ v \in ObjKeys(sent)
                            /\ ObjGet(sent, v) = executionContext'[r][v]
          /\ (pc'[r] = "succeeded" /\ node'[r].type = "end"
                 /\ AllInContext(node'[r], executionContext'[r])) =>
                output'[r] = FillFromContext(node'[r].outputTemplate,
                                             getVariables(node'[r].outputTemplate),
                                             executionContext'[r])]_vars

\* a Generate call is outstanding for a node whose variables are all in the
\* context while an edge binds one of them to a node that has not executed
C31_Witness ==
    \E r \in Runs :
        /\ pc[r] = "await"
        /\ RequiredVars(node[r]) # <<>>
        /\ AllInContext(node[r], executionContext[r])
        /\ BoundToUnprocessed(node[r], processedNodes[r])
        /\ \E v \in Range(RequiredVars(node[r])) :
              /\ BindingEdges(node[r], v) # {}
              /\ NodeIndex(edges[FirstBinding(node[r], v)].source) # 0
              /\ NodeById(edges[FirstBinding(node[r], v)].source).type = "llm"

(* ------------------------------- C32 ----------------------------------- *)
\* the model of n's prompt definition is in no model configuration
ModelUnknown(n) ==
    /\ n.type = "llm" /\ VersionIndex(n.versionId) # 0
    /\ \A i \in 1..Len(availableAPIs) :
          availableAPIs[i].id # versions[VersionIndex(n.versionId)].model

CallsFor(r, id) == {i \in 1..Len(calls[r]) : calls[r][i].nodeId = id}

\* C32: for a Generate node whose prompt definition names an unknown model,
\* every generation call is made with the first model configuration; the node
\* has a call once its execution has passed the call; and an error step of
\* the node comes from a call that failed or from the status callback.
C32_UnknownModelFallsBack ==
    \A r \in Runs : \A n \in Range(nodes) :
        ModelUnknown(n) =>
            /\ \A i \in CallsFor(r, n.id) :
                  calls[r][i].args.modelConfig = availableAPIs[1].id
            /\ (n.id \in StepIds(r)
                   \/ (node[r] = n /\ pc[r] \in {"await", "succeeded", "catch"})) =>
                  CallsFor(r, n.id) # {}
            /\ \A k \in 1..Len(Steps(r)) :
                  (Steps(r)[k].nodeId = n.id /\ Steps(r)[k].status = "error") =>
                      \/ \E i \in CallsFor(r, n.id) : ~results[r][i].ok
                      \/ Steps(r)[k].output = CallbackError.message

\* a run has returned with a success step for a node whose model is unknown
C32_Witness ==
    \E r \in Runs : \E n \in Range(nodes) :
        /\ Returned(r) /\ ModelUnknown(n) /\ n.id \in SuccessIds(r)
        /\ runLog[r].status = "success"

(* ------------------------------- C33 ----------------------------------- *)
NonEntryCount == Cardinality({i \in 1..Len(nodes) : nodes[i].type # "start"})
Min(a, b) == IF a <= b THEN a ELSE b

\* C33: every call that has started returns its run log, and at every
\* moment the log has at most 1 + min(100, number of non-Entry nodes) steps.
C33_AlwaysReturns ==
    /\ \A r \in Runs : (pc[r] = "begin") ~> Returned(r)
    /\ [](\A r \in Runs : Len(Steps(r)) <= 1 + Min(IterationLimitStart, NonEntryCount))

\* the call settles: it returns its log or its promise rejects
C33_AlwaysSettles ==
    \A r \in Runs : (pc[r] = "begin") ~> (pc[r] \in {"done", "rejected"})

\* the bound on the number of steps alone
C33_StepBound ==
    \A r \in Runs : Len(Steps(r)) <= 1 + Min(IterationLimitStart, NonEntryCount)

(* ------------------------------- C34 ----------------------------------- *)
\* the (source, target) pairs of the edges and their transitive closure
EdgePairs == {<<edges[i].source, edges[i].target>> : i \in 1..Len(edges)}
RECURSIVE Closure(_)
Closure(R) ==
    LET step == R \cup {<<x[1][1], x[2][2]>> : x \in {y \in R \X R : y[1][2] = y[2][1]}}
    IN  IF step = R THEN R ELSE Closure(step)
Acyclic == \A p \in Closure(EdgePairs) : p[1] # p[2]

\* one Entry node, no dependency cycle, every required variable an initial
\* input or bound by an edge from a node of the graph
ValidGraph ==
    /\ Cardinality({i \in 1..Len(nodes) : nodes[i].type = "start"}) = 1
    /\ Acyclic
    /\ \A n \in Range(nodes) : \A v \in Range(RequiredVars(n)) :
          \/ v \in ObjKeys(startInputs)
          \/ \E i \in 1..Len(edges) : Binds(edges[i], n, v) /\ NodeIndex(edges[i].source) # 0

AllCallsOk(r) == \A i \in 1..Len(results[r]) : results[r][i].ok

\* every node of the list has exactly one step, and the log has no other step
OneStepPerNode(r) ==
    /\ Len(Steps(r)) = Len(nodes)
    /\ \A i \in 1..Len(nodes) :
          Cardinality({k \in 1..Len(Steps(r)) : Steps(r)[k].nodeId = nodes[i].id}) = 1

\* C34: a call on a valid graph that has returned without a failed
\* generation call has status 'success', one success step per node and no
\* node pending.
C34_CompleteOnValidGraphs ==
    \A r \in Runs :
        (Returned(r) /\ ValidGraph /\ AllCallsOk(r)) =>
            /\ runLog[r].status = "success"
            /\ OneStepPerNode(r)
            /\ remainingNodes[r] = <<>>

(* ------------------------------- C35 ----------------------------------- *)
StepCount(r, id, status) ==
    Cardinality({k \in 1..Len(Steps(r)) :
                    Steps(r)[k].nodeId = id /\ Steps(r)[k].status = status})
PendingIds(r) == {remainingNodes[r][i].id : i \in 1..Len(remainingNodes[r])}

\* the three groups of a non-Entry node
IsPending(r, id) ==
    /\ id \in PendingIds(r) /\ id \notin processedNodes[r]
    /\ StepCount(r, id, "success") = 0 /\ StepCount(r, id, "error") = 0
HasSucceeded(r, id) ==
    /\ id \notin PendingIds(r) /\ id \in processedNodes[r]
    /\ StepCount(r, id, "success") = 1 /\ StepCount(r, id, "error") = 0
HasFailed(r, id) ==
    /\ id \notin PendingIds(r) /\ id \notin processedNodes[r]
    /\ StepCount(r, id, "success") = 0 /\ StepCount(r, id, "error") = 1

\* C35: between node executions (at the loop head and in a returned call)
\* every non-Entry node is pending with no step, or has one success step and
\* is processed, or has one error step and is not processed; processed is
\* the set of nodes with a success step (the logged Entry node among them)
\* and holds no pending node.
C35_Bookkeeping ==
    \A r \in Runs :
        pc[r] \in {"loop", "done"} =>
            /\ \A n \in Range(nodes) :
                  n.type # "start" =>
                      \/ IsPending(r, n.id)
                      \/ HasSucceeded(r, n.id)
                      \/ HasFailed(r, n.id)
            /\ processedNodes[r] = SuccessIds(r)
            /\ processedNodes[r] \cap PendingIds(r) = {}

\* a returned call with one non-Entry node in each group
C35_Witness ==
    \E r \in Runs : \E a \in Range(nodes), b \in Range(nodes), c \in Range(nodes) :
        /\ Returned(r)
        /\ a.type # "start" /\ b.type # "start" /\ c.type # "start"
        /\ IsPending(r, a.id) /\ HasSucceeded(r, b.id) /\ HasFailed(r, c.id)

(* ------------------------------- C36 ----------------------------------- *)
\* what a failed node must leave alone
Frame(r) == <<executionContext[r], processedNodes[r], runLog[r].outputs>>

\* the failure caught for run r is a failed call or a missing prompt definition
GenerateFailure(r) == err[r].message \in GenErrors \cup {RefVersionNotFound.message}

\* C36: the context, the processed set and the outputs are left as they are
\* by every step of a failing Generate execution: the selection of a node,
\* the lookup of the prompt definition and the making of the call, the
\* rejection of the call, and the catch block; and no step of a run removes
\* a key from the context.
C36_FailureChangesNothing ==
    [][\A r \in Runs :
          /\ (\/ pc[r] = "loop"
              \/ (pc[r] = "try" /\ node[r].type = "llm")
              \/ (pc[r] = "await" /\ pc'[r] = "catch")
              \/ (pc[r] = "catch" /\ GenerateFailure(r))) => Frame(r)' = Frame(r)
          /\ DOMAIN executionContext[r] \subseteq DOMAIN executionContext'[r]]_vars

\* a call has returned after a Generate node failed, an earlier Generate
\* node having published its output
C36_Witness ==
    \E r \in Runs :
        /\ Returned(r) /\ err[r].thrown /\ GenerateFailure(r)
        /\ Len(Steps(r)) >= 3
        /\ Cardinality(DOMAIN executionContext[r]) > Len(startInputs)

(* ------------------------------- C37 ----------------------------------- *)
\* the steps of Exit nodes
ExitSteps(r) ==
    {i \in 1..Len(Steps(r)) : /\ NodeIndex(Steps(r)[i].nodeId) # 0
                              /\ NodeById(Steps(r)[i].nodeId).type = "end"}

\* C37: a step of an Exit node is the last step of the log, and once the log
\* has one no node is being executed.
C37_ExitStepIsLast ==
    \A r \in Runs :
        /\ \A i \in ExitSteps(r) : i = Len(Steps(r))
        /\ ExitSteps(r) # {} => ~Selected(r)

(* ------------------------------- C38 ----------------------------------- *)
\* the source of the first edge binding v of n is a Generate node whose
\* output is in the context
SuppliedByEdge(n, v, ctx) ==
    /\ BindingEdges(n, v) # {}
    /\ NodeIndex(edges[FirstBinding(n, v)].source) # 0
    /\ LET s == NodeById(edges[FirstBinding(n, v)].source)
       IN  s.type = "llm" /\ RawKey(s.id) \in DOMAIN ctx

\* C38: every required variable of the node being executed is a key of the
\* context or is bound by an edge to a source whose output is in the context.
C38_RequiredValuesSupplied ==
    \A r \in Runs :
        pc[r] \in {"try", "await"} =>
            \A v \in Range(RequiredVars(node[r])) :
                \/ v \in DOMAIN executionContext[r]
                \/ SuppliedByEdge(node[r], v, executionContext[r])

(* ------------------------------- C39 ----------------------------------- *)
\* C39: in the graph editor, at most one edge binds a (target, handle) pair,
\* no edge has one node as source and target, the source and the target of
\* every edge are nodes of the graph, the Entry node 'start-node' is present
\* and there is at most one Exit node.
C39_EditorInvariant ==
    /\ \A i \in 1..Len(edges), j \in 1..Len(edges) :
          (edges[i].target = edges[j].target /\ edges[i].targetHandle = edges[j].targetHandle)
              => i = j
    /\ \A i \in 1..Len(edges) :
          /\ edges[i].source # edges[i].target
          /\ edges[i].source \in NodeIds
          /\ edges[i].target \in NodeIds
    /\ \E i \in 1..Len(nodes) : nodes[i].id = "start-node" /\ nodes[i].type = "start"
    /\ Cardinality({i \in 1..Len(nodes) : nodes[i].type = "end"}) <= 1

\* a graph with two edges, one of them drawn over an earlier edge of the same
\* input handle, after the default Exit node was deleted and a new one added
C39_Witness ==
    /\ mounted /\ Len(edges) = 2
    /\ \E i \in 1..Len(nodes) : nodes[i].type = "end" /\ nodes[i].id # "end-node"
    /\ \E i \in 1..Len(edges) : edges[i].source # "start-node" /\ edges[i].id = "edge-1"
    /\ \E i \in 1..Len(edges) : edges[i].id = "edge-0"

(* ------------------------------- C40 ----------------------------------- *)
\* the number of times id occurs in a sequence of ids
Occurrences(seq, id) == Cardinality({i \in 1..Len(seq) : seq[i] = id})

InFlight == Len(startedCases) - Len(finalResults)

\* the batch is completed; every test case was started once and has one
\* result, 'error' exactly when its run failed
BatchDone ==
    /\ batchRun.status = "completed"
    /\ Len(batchRun.results) = Len(dataset)
    /\ \A i \in 1..Len(dataset) :
          /\ Occurrences(startedCases, dataset[i].id) = 1
          /\ \E k \in 1..Len(batchRun.results) :
                /\ batchRun.results[k].caseId = dataset[i].id
                /\ batchRun.results[k].status =
                       IF dataset[i].run = "success" /\ graphJson = "valid"
                       THEN "success" ELSE "error"
                /\ \A j \in 1..Len(batchRun.results) :
                      batchRun.results[j].caseId = dataset[i].id => j = k

\* C40: no test case is started twice, at most 3 cases are in flight, and
\* every batch reaches for good the completed state in which each test case
\* was started once and has exactly one result, failed cases included.
C40_BatchCompletes ==
    /\ [](/\ InFlight <= CONCURRENCY
          /\ \A i \in 1..Len(dataset) : Occurrences(startedCases, dataset[i].id) <= 1)
    /\ <>[]BatchDone

\* a completed batch of more cases than workers, with failed cases before
\* the last one in the results
C40_Witness ==
    /\ batchRun.status = "completed" /\ graphJson = "valid"
    /\ Len(dataset) > CONCURRENCY
    /\ \E k \in 1..(Len(batchRun.results) - 1) : batchRun.results[k].status = "error"
    /\ batchRun.results[Len(batchRun.results)].status = "success"
    /\ \E k \in 1..Len(batchRun.results) : batchRun.results[k].latency >= 1

====
